---- MODULE Spec2Model ----
(***************************************************************************)
(* A model of the appliance-facing client layer of opnsense-mcp:           *)
(*   - the retrying transport (retry, OPNsenseClient._make_request),       *)
(*   - the firewall-log endpoint probe and get_firewall_logs,              *)
(*   - the interface resolver of FwRulesTool,                              *)
(*   - the response normalisation of get_dhcpv4_leases/get_firewall_rules, *)
(*   - the rule change pipeline (MkfwRuleTool, RmfwRuleTool,               *)
(*     add/delete_firewall_rule, apply_firewall_changes), alone and with   *)
(*     a second caller,                                                    *)
(*   - the interface resolution of the packet capture tool,                *)
(*   - the request bodies of rule creation and toggle_firewall_rule,       *)
(*   - the certificate verification of the client's requests,              *)
(*   - DHCPLeaseDeleteTool,                                                *)
(*   - create_jwt and decode_jwt.                                          *)
(* Each subsystem has its own specification over the shared variables.     *)
(***************************************************************************)
EXTENDS Integers, Sequences, FiniteSets, TLC

VARIABLES
    \* ---- retry wrapper around _make_request (api.py 60-82)
    rpc,            \* "idle" | "attempt" | "returned" | "raised"
    attempts,       \* local `attempts`
    current_delay,  \* local `current_delay`
    last_error,     \* local `last_error`
    failures,       \* observer: the exception of every failed attempt, in order
    sleeps,         \* observer: every time.sleep argument, in order
    tried,          \* observer: what requests.request gave each attempt issued, in order
    returned,       \* value returned to the caller (None before)
    raised,         \* exception raised to the caller (None before)
    \* ---- firewall-log endpoint probe and get_firewall_logs (api.py 146-154, 638-757)
    env_endpoint,            \* os.getenv("OPNSENSE_FIREWALL_LOG_ENDPOINT"), "None" when unset
    firewall_log_endpoint,   \* self.firewall_log_endpoint: "unprobed" before __init__, then a path or "None"
    probe_contacted,         \* observer: the paths _detect_endpoint sent a GET to, in order
    logs_calls,              \* observer: number of get_firewall_logs calls made on the client
    logs_contacted,          \* observer: the path of every HTTP request of the last get_firewall_logs call
    logs_result,             \* what the last get_firewall_logs call returned
    logs_nodata,             \* observer: no candidate of the last get_firewall_logs answered with entries
    logs_raised,             \* "none", or the exception that escaped the probe or get_firewall_logs
    \* ---- FwRulesTool interface resolver (fw_rules.py 33-117)
    interfaces_cache,        \* self._interfaces_cache
    interface_groups_cache,  \* self._interface_groups_cache
    appliance_groups,        \* observer: the appliance's groups (name -> members) when they were fetched
    groups_fetch_ok,         \* observer: the group fetch got the appliance's answer
    res_calls,               \* observer: number of _resolve_interface_name calls
    iface_query,             \* argument of the last _resolve_interface_name call
    res_result,              \* the list it returned, as a set
    res_fetch,               \* observer: how the interface fetch and the group fetch ended
    res_raised,              \* "none", or the exception that escaped _resolve_interface_name
    res_fetches,             \* observer: <<interface fetches, group fetches>> sent to the appliance
    res_first,               \* observer: what the first interface fetch and the first group fetch gave
    \* ---- response normalisation of get_dhcpv4_leases / get_firewall_rules
    norm_fn,                 \* which method ran last: "none" | "get_dhcpv4_leases" | "get_firewall_rules"
    norm_in,                 \* what its _make_request call gave it
    norm_out,                \* what it returned or raised
    \* ---- rule change pipeline: the appliance
    candidate,               \* UUIDs of the rules of the candidate (pending) configuration
    live,                    \* UUIDs of the rules of the running configuration
    next_uuid,               \* the UUID the appliance gives the next rule it saves
    next_rev,                \* the revision the appliance gives the next savepoint
    \* ---- rule change pipeline: MkfwRuleTool / RmfwRuleTool and the client methods
    ppc,                     \* "idle" | "addRule" | "delRule" | "savepoint" | "apply" | "done"
    tool,                    \* "none" | "mkfw_rule" | "rmfw_rule"
    params,                  \* the params of the running execute()
    req_attempts,            \* `attempts` of the running _make_request call
    rule_uuid,               \* local rule_uuid of execute() (0: not set)
    revision,                \* local revision of apply_firewall_changes (0: not set)
    sent,                    \* observer: the HTTP requests of this execute(), with what each got
    result,                  \* what execute() returned
    \* ---- rule change pipeline: a second caller running MkfwRuleTool.execute with apply
    peer_pc,                 \* "idle" | "addRule" | "savepoint" | "apply" | "done"
    peer_rule_uuid,          \* its local rule_uuid (0: not set)
    peer_revision,           \* its local revision (0: not set)
    peer_result,             \* what its execute() returned
    \* ---- PacketCaptureTool2.start_capture interface resolution (packet_capture.py 329-387)
    cap_interface,           \* argument `interface` of the last start_capture
    cap_fetched,             \* observer: every interface export of the call was answered with entries
    cap_merged,              \* observer: `merged` of the resolving InterfaceListTool.execute
    cap_resolved,            \* resolved_iface
    cap_source,              \* observer: the branch that set resolved_iface
    \* ---- one call of OPNsenseClient._detect_endpoint (api.py 638-662)
    pb_eps,                  \* argument `endpoints`
    pb_answer,               \* observer: what a GET of each path meets (status code, 0: exception)
    pb_ep,                   \* the value returned ("unprobed" before the call)
    pb_contacted,            \* observer: the paths the call sent a GET to, in order
    \* ---- the enabled flag of create-rule and toggle-rule requests
    wire_op,                 \* "none" | "create" | "toggle"
    wire_in,                 \* the caller's value of `enabled`
    wire_req,                \* observer: the request handed to _make_request (NoRequest: none)
    wire_result,             \* how the operation ended
    \* ---- certificate verification of the client's requests
    tls_verify_ssl,          \* config["verify_ssl"] of the client: "True" | "False" | "absent" ("unset": no client)
    tls_log,                 \* observer: the requests of the last operation, each with its `verify` argument
    \* ---- DHCPLeaseDeleteTool.execute
    lease_params,            \* params of the last execute()
    lease_calls,             \* observer: the _make_request calls of that execute(), in order
    lease_result,            \* what it returned
    \* ---- create_jwt / decode_jwt
    jwt_now,                 \* time.time(), in seconds
    jwt_token,               \* the token create_jwt returned last, with the expire_minutes it was given
    jwt_out                  \* what decode_jwt did last: the payload returned or the JWTError raised

retryVars == <<rpc, attempts, current_delay, last_error, failures, sleeps, tried, returned, raised>>
logsVars == <<env_endpoint, firewall_log_endpoint, probe_contacted, logs_calls, logs_contacted, logs_result,
              logs_nodata, logs_raised>>
resVars == <<interfaces_cache, interface_groups_cache, appliance_groups, groups_fetch_ok,
             res_calls, iface_query, res_result, res_fetch, res_raised, res_fetches, res_first>>
normVars == <<norm_fn, norm_in, norm_out>>
applianceVars == <<candidate, live, next_uuid, next_rev>>
toolVars == <<ppc, tool, params, req_attempts, rule_uuid, revision, sent, result>>
peerVars == <<peer_pc, peer_rule_uuid, peer_revision, peer_result>>
pipeVars == <<applianceVars, toolVars, peerVars>>

capVars == <<cap_interface, cap_fetched, cap_merged, cap_resolved, cap_source>>

probeVars == <<pb_eps, pb_answer, pb_ep, pb_contacted>>

\* the variables of the subsystems modelled first, and of those modelled after them
earlyVars == <<retryVars, logsVars, resVars, normVars, pipeVars, capVars>>
wireVars == <<wire_op, wire_in, wire_req, wire_result>>
tlsVars == <<tls_verify_ssl, tls_log>>
leaseVars == <<lease_params, lease_calls, lease_result>>
jwtVars == <<jwt_now, jwt_token, jwt_out>>
lateVars == <<probeVars, wireVars, tlsVars, leaseVars, jwtVars>>

vars == <<earlyVars, lateVars>>

None == [t |-> "none"]

(***************************************************************************)
(* Transport: one attempt of _make_request                                 *)
(***************************************************************************)

\* retry(max_attempts=3) on _make_request; delay and backoff keep their defaults
max_attempts == 3
delay == 1
backoff == 2

HasKey(f, k) == k \in DOMAIN f

EmptyDict == [k \in {} |-> ""]

\* Parsed JSON bodies the appliance may answer with (response.json()).
DictBody(f) == [t |-> "dict", f |-> f]
ListBody(items) == [t |-> "list", f |-> items]
\* a JSON number, boolean or null: neither a list nor a dict, and not iterable
ScalarBody(v) == [t |-> "scalar", f |-> <<v>>]
InvalidBody == [t |-> "invalid", f |-> EmptyDict]

IsDict(body) == body.t = "dict"
IsList(body) == body.t = "list"

\* Python's dict.get(key) == value
GetEq(body, k, v) == IsDict(body) /\ HasKey(body.f, k) /\ body.f[k] = v

\* What requests.request can do on one attempt.
ConnFail == [kind |-> "conn", status |-> 0, body |-> InvalidBody]
TimeoutFail == [kind |-> "timeout", status |-> 0, body |-> InvalidBody]
Http(status, body) == [kind |-> "http", status |-> status, body |-> body]
\* requests.request raises something that is not a requests exception
OtherFail == [kind |-> "other", status |-> 0, body |-> InvalidBody]

Exc(type, msg, resp) == [t |-> "exc", type |-> type, msg |-> msg, resp |-> resp]
Ok(body) == [t |-> "ok", body |-> body]

\* response.raise_for_status(): HTTPError for 4xx and 5xx
RaisesForStatus(status) == status >= 400 /\ status < 600

\* mutant: a 200 answer with result == "failed" is returned like any other body
MakeRequestOnceNoAppCheck(resp) ==
    IF resp.kind = "conn" THEN Exc("ConnectionError", "Connection failed", resp)
    ELSE IF resp.kind = "timeout" THEN Exc("RequestError", "Request failed", resp)
    ELSE IF resp.kind = "other" THEN Exc("Exception", "Unexpected error", resp)
    ELSE IF RaisesForStatus(resp.status) THEN Exc("RequestError", "HTTP error", resp)
    ELSE IF resp.body.t = "invalid" THEN Exc("ResponseError", "Invalid JSON response", resp)
    ELSE Ok(resp.body)

\* The body of _make_request for one attempt: the parsed body, or the exception.
MakeRequestOnce(resp) ==
    IF resp.kind = "conn" THEN Exc("ConnectionError", "Connection failed", resp)
    ELSE IF resp.kind = "timeout" THEN Exc("RequestError", "Request failed", resp)
    ELSE IF resp.kind = "other" THEN Exc("Exception", "Unexpected error", resp)
    ELSE IF resp.status = 200 THEN
        IF resp.body.t = "invalid" THEN Exc("ResponseError", "Invalid JSON response", resp)
        ELSE IF GetEq(resp.body, "result", "failed") THEN Exc("RequestError", "API error", resp)
        ELSE Ok(resp.body)
    ELSE IF RaisesForStatus(resp.status) THEN Exc("RequestError", "HTTP error", resp)
    ELSE IF resp.body.t = "invalid" THEN Exc("ResponseError", "Invalid JSON response", resp)
    ELSE Ok(resp.body)

(***************************************************************************)
(* Transport: the retry wrapper                                            *)
(***************************************************************************)

\* mutant: the loop gives up one attempt early
GivesUpEarly(n) == n >= max_attempts - 1

\* mutant: only connection failures are retried
CaughtConnectionOnly(e) == e.type = "ConnectionError"

\* `except Exception as e`: every exception an attempt raises is caught
Caught(e) == TRUE

\* `if attempts == max_attempts: raise`
GivesUp(n) == n = max_attempts

\* mutant: the delay is not multiplied
NextDelayConstant(d) == d

\* `current_delay *= backoff`
NextDelay(d) == d * backoff

\* the bare `raise` re-raises the exception of the current attempt
RaisedError(errs, e) == e

\* Responses an attempt of the generic transport check may get.
SampleBodies ==
    { InvalidBody,
      DictBody(EmptyDict),
      DictBody([result |-> "failed"]),
      DictBody([result |-> "saved"]),
      ListBody(<<>>) }

SampleResponses ==
    {ConnFail, TimeoutFail, OtherFail}
    \cup {Http(s, b) : s \in {200, 201, 404}, b \in SampleBodies}
    \cup {Http(s, InvalidBody) : s \in {401, 500}}

RetryInit ==
    /\ rpc = "idle"
    /\ attempts = 0
    /\ current_delay = delay
    /\ last_error = None
    /\ failures = <<>>
    /\ sleeps = <<>>
    /\ tried = <<>>
    /\ returned = None
    /\ raised = None

\* wrapper entry: attempts = 0, current_delay = delay, last_error = None
RetryCall ==
    /\ rpc \in {"idle", "returned", "raised"}
    /\ rpc' = "attempt"
    /\ attempts' = 0
    /\ current_delay' = delay
    /\ last_error' = None
    /\ failures' = <<>>
    /\ sleeps' = <<>>
    /\ tried' = <<>>
    /\ returned' = None
    /\ raised' = None
    /\ UNCHANGED <<logsVars, resVars, normVars, pipeVars, capVars, lateVars>>

\* mutant: the value of a successful call is kept but the loop goes on
RetryAttemptOkLoops(resp) ==
    /\ rpc = "attempt"
    /\ attempts < max_attempts
    /\ MakeRequestOnce(resp).t = "ok"
    /\ Len(tried) < max_attempts
    /\ rpc' = "attempt"
    /\ tried' = Append(tried, resp)
    /\ returned' = MakeRequestOnce(resp).body
    /\ UNCHANGED <<attempts, current_delay, last_error, failures, sleeps, raised>>
    /\ UNCHANGED <<logsVars, resVars, normVars, pipeVars, capVars, lateVars>>

\* One iteration of `while attempts < max_attempts` whose call returns.
RetryAttemptOk(resp) ==
    /\ rpc = "attempt"
    /\ attempts < max_attempts
    /\ MakeRequestOnce(resp).t = "ok"
    /\ rpc' = "returned"
    /\ tried' = Append(tried, resp)
    /\ returned' = MakeRequestOnce(resp).body
    /\ UNCHANGED <<attempts, current_delay, last_error, failures, sleeps, raised>>
    /\ UNCHANGED <<logsVars, resVars, normVars, pipeVars, capVars, lateVars>>

\* One iteration whose call raises: count it, then re-raise or sleep and back off.
RetryAttemptFail(resp) ==
    /\ rpc = "attempt"
    /\ attempts < max_attempts
    /\ MakeRequestOnce(resp).t = "exc"
    /\ LET e == MakeRequestOnce(resp) IN
        /\ failures' = Append(failures, e)
        /\ tried' = Append(tried, resp)
        /\ IF ~ Caught(e)
           THEN /\ rpc' = "raised"
                /\ raised' = e
                /\ UNCHANGED <<attempts, last_error, current_delay, sleeps>>
           ELSE IF GivesUp(attempts + 1)
           THEN /\ rpc' = "raised"
                /\ attempts' = attempts + 1
                /\ last_error' = e
                /\ raised' = RaisedError(failures, e)
                /\ UNCHANGED <<current_delay, sleeps>>
           ELSE /\ rpc' = "attempt"
                /\ attempts' = attempts + 1
                /\ last_error' = e
                /\ sleeps' = Append(sleeps, current_delay)
                /\ current_delay' = NextDelay(current_delay)
                /\ UNCHANGED raised
    /\ UNCHANGED returned
    /\ UNCHANGED <<logsVars, resVars, normVars, pipeVars, capVars, lateVars>>

RetryNext ==
    \/ RetryCall
    \/ \E resp \in SampleResponses : RetryAttemptOk(resp)
    \/ \E resp \in SampleResponses : RetryAttemptFail(resp)

(***************************************************************************)
(* A whole _make_request call: the retry loop run over the answers the     *)
(* attempts get, in order                                                  *)
(***************************************************************************)

\* [out |-> what the caller gets, n |-> number of HTTP requests issued]
RECURSIVE MakeRequestFrom(_, _)
MakeRequestFrom(resps, n) ==
    LET r == MakeRequestOnce(resps[n]) IN
    IF r.t = "ok" THEN [out |-> r, n |-> n]
    ELSE IF GivesUp(n) THEN [out |-> r, n |-> n]
    ELSE MakeRequestFrom(resps, n + 1)

MakeRequest(resps) == MakeRequestFrom(resps, 1)

\* an endpoint that answers every attempt of one call alike
Steady(resp) == [i \in 1..max_attempts |-> resp]

(***************************************************************************)
(* Endpoint probe and firewall-log retrieval                               *)
(***************************************************************************)

PyNone == "None"

\* the hard-coded candidates of __init__ (api.py 150-152) and get_firewall_logs (715-717)
LogPaths == <<"/api/diagnostics/firewall/log", "/api/firewall/log", "/api/diagnostics/firewall/pf_log">>

\* values of OPNSENSE_FIREWALL_LOG_ENDPOINT explored by the model
EnvValues == {PyNone, "/api/custom/log"}

Candidates(env) == <<env>> \o LogPaths

CandidateSet == {"/api/custom/log"} \cup {LogPaths[i] : i \in 1..Len(LogPaths)}

\* `if not ep: continue`
Skipped(ep) == ep = PyNone

\* what a GET of the probe can meet: a status code, or an exception (0)
ProbeAnswers == {200, 401, 404, 500, 0}

\* `except Exception as e` around the GET of the probe
ProbeCaught(a) == TRUE

\* mutant: a 401 ends the probe without a selection
RECURSIVE DetectFromStopsOn401(_, _, _)
DetectFromStopsOn401(eps, answer, i) ==
    IF i > Len(eps) THEN [ep |-> PyNone, contacted |-> <<>>, raised |-> "none"]
    ELSE IF Skipped(eps[i]) THEN DetectFromStopsOn401(eps, answer, i + 1)
    ELSE IF answer[eps[i]] = 200 THEN [ep |-> eps[i], contacted |-> <<eps[i]>>, raised |-> "none"]
    ELSE IF answer[eps[i]] = 401 THEN [ep |-> PyNone, contacted |-> <<eps[i]>>, raised |-> "none"]
    ELSE LET rest == DetectFromStopsOn401(eps, answer, i + 1) IN
         [ep |-> rest.ep, contacted |-> <<eps[i]>> \o rest.contacted, raised |-> rest.raised]

\* _detect_endpoint from candidate i on: [ep |-> selected path or None,
\* contacted |-> paths tried, raised |-> "none" or the exception that escaped]
RECURSIVE DetectFrom(_, _, _)
DetectFrom(eps, answer, i) ==
    IF i > Len(eps) THEN [ep |-> PyNone, contacted |-> <<>>, raised |-> "none"]
    ELSE IF Skipped(eps[i]) THEN DetectFrom(eps, answer, i + 1)
    ELSE IF answer[eps[i]] = 200 THEN [ep |-> eps[i], contacted |-> <<eps[i]>>, raised |-> "none"]
    ELSE IF answer[eps[i]] = 0 /\ ~ ProbeCaught(answer[eps[i]])
        THEN [ep |-> PyNone, contacted |-> <<eps[i]>>, raised |-> "Exception"]
    ELSE LET rest == DetectFrom(eps, answer, i + 1) IN
         [ep |-> rest.ep, contacted |-> <<eps[i]>> \o rest.contacted, raised |-> rest.raised]

DetectEndpoint(eps, answer) == DetectFrom(eps, answer, 1)

\* log entries and bodies a log endpoint may answer with
LogEntries == <<"log1", "log2">>

LogResponses ==
    { ConnFail,
      Http(404, InvalidBody),
      Http(200, InvalidBody),
      Http(200, ListBody(LogEntries)),
      Http(200, DictBody([rows |-> ListBody(LogEntries)])),
      Http(200, DictBody([data |-> ScalarBody("x")])) }

\* response[:limit] if limit else response
Limit(items, limit) ==
    IF limit = 0 THEN items
    ELSE IF Len(items) <= limit THEN items
    ELSE SubSeq(items, 1, limit)

\* for key in ("logs", "data", "rows"): the first key present whose value is a list
LogKeys == <<"logs", "data", "rows">>

RECURSIVE FirstListKey(_, _)
FirstListKey(f, i) ==
    IF i > Len(LogKeys) THEN PyNone
    ELSE IF HasKey(f, LogKeys[i]) /\ IsList(f[LogKeys[i]])
         THEN LogKeys[i]
    ELSE FirstListKey(f, i + 1)

Repeat(x, n) == [i \in 1..n |-> x]

\* mutant: get_firewall_logs only handles connection failures
LogsCaughtConnectionOnly(e) == e.type = "ConnectionError"

\* `except requests.exceptions.HTTPError` / `except Exception` around each candidate
LogsCaught(e) == TRUE

\* get_firewall_logs from candidate i on: [result |-> the list returned,
\* contacted |-> the path of every HTTP request issued,
\* raised |-> "none" or the exception that escaped]
RECURSIVE LogsFrom(_, _, _, _)
LogsFrom(eps, answer, limit, i) ==
    IF i > Len(eps) THEN [result |-> <<>>, contacted |-> <<>>, raised |-> "none"]
    ELSE IF Skipped(eps[i]) THEN LogsFrom(eps, answer, limit, i + 1)
    ELSE
        LET call == MakeRequest(Steady(answer[eps[i]]))
            gets == Repeat(eps[i], call.n)
            rest == LogsFrom(eps, answer, limit, i + 1)
            next == [result |-> rest.result, contacted |-> gets \o rest.contacted,
                     raised |-> rest.raised]
        IN
        IF call.out.t = "exc" THEN
            IF LogsCaught(call.out) THEN next
            ELSE [result |-> <<>>, contacted |-> gets, raised |-> call.out.type]
        ELSE IF IsList(call.out.body)
            THEN [result |-> Limit(call.out.body.f, limit), contacted |-> gets, raised |-> "none"]
        ELSE IF IsDict(call.out.body) /\ FirstListKey(call.out.body.f, 1) # PyNone
            THEN [result |-> Limit(call.out.body.f[FirstListKey(call.out.body.f, 1)].f, limit),
                  contacted |-> gets, raised |-> "none"]
        ELSE next

\* The candidate list get_firewall_logs walks: it is rebuilt on every call
\* (api.py 713-718) and self.firewall_log_endpoint is not read.
LogCandidates(env, cached) == Candidates(env)

GetFirewallLogsResult(env, cached, answer, limit) ==
    LogsFrom(LogCandidates(env, cached), answer, limit, 1)

\* the answer of a candidate carries log entries: a 200 whose body is a list,
\* or a mapping with a list under logs, data or rows
YieldsData(resp) ==
    /\ resp.kind = "http"
    /\ resp.status = 200
    /\ \/ resp.body.t = "list"
       \/ /\ resp.body.t = "dict"
          /\ \E k \in {"logs", "data", "rows"} :
                HasKey(resp.body.f, k) /\ resp.body.f[k].t = "list"

\* the candidates that are not skipped when the environment names env
Walked(env) == {ep \in CandidateSet : ep # "/api/custom/log" \/ env = ep}

LogsInit ==
    /\ env_endpoint = PyNone
    /\ firewall_log_endpoint = "unprobed"
    /\ probe_contacted = <<>>
    /\ logs_calls = 0
    /\ logs_contacted = <<>>
    /\ logs_result = <<>>
    /\ logs_nodata = FALSE
    /\ logs_raised = "none"

\* OPNsenseClient.__init__: the probe runs once, at construction.
Construct(env, answer) ==
    /\ firewall_log_endpoint = "unprobed"
    /\ env_endpoint' = env
    /\ firewall_log_endpoint' = DetectEndpoint(Candidates(env), answer).ep
    /\ probe_contacted' = DetectEndpoint(Candidates(env), answer).contacted
    /\ logs_raised' = DetectEndpoint(Candidates(env), answer).raised
    /\ UNCHANGED <<logs_calls, logs_contacted, logs_result, logs_nodata>>
    /\ UNCHANGED <<retryVars, resVars, normVars, pipeVars, capVars, lateVars>>

\* values of `limit` explored by the model (0 is falsy: no truncation)
Limits == {0, 1}

\* bound on the number of get_firewall_logs calls per client
MaxLogCalls == 1

GetFirewallLogs(answer, limit) ==
    /\ firewall_log_endpoint # "unprobed"
    /\ logs_calls < MaxLogCalls
    /\ logs_calls' = logs_calls + 1
    /\ LET r == GetFirewallLogsResult(env_endpoint, firewall_log_endpoint, answer, limit) IN
        /\ logs_contacted' = r.contacted
        /\ logs_result' = r.result
        /\ logs_raised' = r.raised
    /\ logs_nodata' = \A ep \in Walked(env_endpoint) : ~ YieldsData(answer[ep])
    /\ UNCHANGED <<env_endpoint, firewall_log_endpoint, probe_contacted>>
    /\ UNCHANGED <<retryVars, resVars, normVars, pipeVars, capVars, lateVars>>

LogsNext ==
    \/ \E env \in EnvValues, answer \in [CandidateSet -> ProbeAnswers] : Construct(env, answer)
    \/ \E answer \in [CandidateSet -> LogResponses], limit \in Limits : GetFirewallLogs(answer, limit)

(***************************************************************************)
(* Interface resolver (FwRulesTool)                                        *)
(***************************************************************************)

\* Strings are sequences of characters, so that `in` and lower() are computed.
Lower(c) ==
    CASE c = "A" -> "a"
      [] c = "X" -> "x"
      [] c = "O" -> "o"
      [] c = "K" -> "k"
      [] c = "B" -> "b"
      [] c = "W" -> "w"
      [] c = "N" -> "n"
      [] c = "L" -> "l"
      [] c = "D" -> "d"
      [] c = "M" -> "m"
      [] c = "Z" -> "z"
      [] OTHER -> c

LowerStr(str) == [i \in 1..Len(str) |-> Lower(str[i])]

\* Python's `needle in hay` on strings
Contains(hay, needle) ==
    \E i \in 0..(Len(hay) - Len(needle)) :
        \A j \in 1..Len(needle) : hay[i + j] = needle[j]

\* str.lower() containment, as in `iface_query.lower() in iface_name.lower()`
ContainsCI(hay, needle) == Contains(LowerStr(hay), LowerStr(needle))

ax1 == <<"a", "x", "1">>
ax10 == <<"a", "x", "1", "0">>
wl0 == <<"w", "l", "0">>
iot == <<"i", "o", "t">>
lab == <<"l", "a", "b">>

\* device names and descriptions of the interface tables explored by the model
NamePool == {ax1, ax10, wl0}
DescPool == {<<>>, <<"A", "X", "1">>}

\* every dict client.get_interfaces() may return: name -> description
InterfaceTables == UNION {[D -> DescPool] : D \in SUBSET NamePool}

\* the appliance's interface groups explored by the model: name -> member devices
GroupTables ==
    { [g \in {} |-> {}],
      [g \in {iot} |-> {ax10, wl0}],
      [g \in {iot, lab} |-> IF g = iot THEN {ax10, wl0} ELSE {ax1}],
      [g \in {ax1} |-> {wl0}] }

QueryPool == NamePool \cup {iot, lab, <<"i", "o">>, <<"A", "X", "1">>, <<"x">>, <<"z">>, <<>>}

NoCache == [set |-> FALSE, v |-> <<>>]

\* mutant: an empty outcome (a failed fetch) is not kept
CachedUnlessEmpty(v) == IF DOMAIN v = {} THEN NoCache ELSE [set |-> TRUE, v |-> v]

\* `self._interfaces_cache = ...` / `self._interface_groups_cache = ...`: set
\* on success and, to {}, in the except clause
Cached(v) == [set |-> TRUE, v |-> v]

\* _get_interfaces on a miss: the client's answer kept only when it is a dict
\* (kind "dict"); a list answer (kind "list") and an exception (kind "raise") give {}
FetchedInterfaces(kind, table) == IF kind = "dict" THEN table ELSE <<>>

\* _get_interface_groups on a miss: one key per row's "interface" value, each
\* mapped to the empty list; nothing is ever appended to it (fw_rules.py 53-56).
\* kind "rows": a dict body with rows; "other": any other body; "raise": exception
FetchedGroups(kind, table) ==
    IF kind = "rows" THEN [g \in DOMAIN table |-> {}] ELSE [g \in {} |-> {}]

\* mutant: a failed fetch is not handled
EscapedFetchUnhandled(ikind, gkind) == IF "raise" \in {ikind, gkind} THEN "Exception" ELSE "none"

\* the exception that gets out of _get_interfaces / _get_interface_groups:
\* both wrap their fetch in `except Exception` and return {}
EscapedFetch(ikind, gkind) == "none"

\* the four stages of _resolve_interface_name
StageExactName(q, interfaces) == IF q \in DOMAIN interfaces THEN {q} ELSE {}

StageExactGroup(q, groups) == IF q \in DOMAIN groups THEN groups[q] ELSE {}

\* mutant: the partial match compares case-sensitively
StagePartialNameCaseSensitive(q, interfaces) ==
    {n \in DOMAIN interfaces : Contains(n, q) \/ Contains(interfaces[n], q)}

StagePartialName(q, interfaces) ==
    {n \in DOMAIN interfaces : ContainsCI(n, q) \/ ContainsCI(interfaces[n], q)}

StagePartialGroup(q, groups) ==
    UNION {groups[g] : g \in {h \in DOMAIN groups : ContainsCI(h, q)}}

\* mutant: an exact device name returns at once
ResolvedShortCircuit(q, interfaces, groups) ==
    IF q \in DOMAIN interfaces THEN {q}
    ELSE StageExactGroup(q, groups) \cup StagePartialName(q, interfaces)
         \cup StagePartialGroup(q, groups)

\* the set `resolved` after the four stages
Resolved(q, interfaces, groups) ==
    StageExactName(q, interfaces) \cup StageExactGroup(q, groups)
    \cup StagePartialName(q, interfaces) \cup StagePartialGroup(q, groups)

\* mutant: nothing resolved gives the empty list
PassThroughEmpty(q, resolved) == resolved

\* `result = list(resolved) if resolved else [iface_query]`
PassThrough(q, resolved) == IF resolved # {} THEN resolved ELSE {q}

\* _resolve_interface_name over the metadata it got
ResolveInterfaceName(q, interfaces, groups) ==
    IF q = <<>> THEN {}
    ELSE PassThrough(q, Resolved(q, interfaces, groups))

ResInit ==
    /\ interfaces_cache = NoCache
    /\ interface_groups_cache = NoCache
    /\ appliance_groups = [g \in {} |-> {}]
    /\ groups_fetch_ok = FALSE
    /\ res_calls = 0
    /\ iface_query = <<>>
    /\ res_result = {}
    /\ res_fetch = <<"none", "none">>
    /\ res_raised = "none"
    /\ res_fetches = <<0, 0>>
    /\ res_first = <<NoCache.v, NoCache.v>>

\* bound on the number of resolve calls on one tool instance
MaxResolves == 2

\* `if not iface_query: return []`: nothing is fetched
ResolveEmpty ==
    /\ res_calls < MaxResolves
    /\ res_calls' = res_calls + 1
    /\ iface_query' = <<>>
    /\ res_result' = ResolveInterfaceName(<<>>, <<>>, <<>>)
    /\ res_raised' = "none"
    /\ UNCHANGED <<interfaces_cache, interface_groups_cache, appliance_groups, groups_fetch_ok, res_fetch,
                   res_fetches, res_first>>
    /\ UNCHANGED <<retryVars, logsVars, normVars, pipeVars, capVars, lateVars>>

\* _resolve_interface_name(q) on a fresh tool: _get_interfaces and
\* _get_interface_groups both miss, fetch, and set their caches.
ResolveFetching(q, ikind, itable, gkind, gtable) ==
    /\ res_calls < MaxResolves
    /\ q # <<>>
    /\ ~ interfaces_cache.set
    /\ ~ interface_groups_cache.set
    /\ interfaces_cache' = Cached(FetchedInterfaces(ikind, itable))
    /\ interface_groups_cache' = Cached(FetchedGroups(gkind, gtable))
    /\ appliance_groups' = gtable
    /\ groups_fetch_ok' = (gkind = "rows")
    /\ res_calls' = res_calls + 1
    /\ iface_query' = q
    /\ res_result' = ResolveInterfaceName(q, FetchedInterfaces(ikind, itable),
                                          FetchedGroups(gkind, gtable))
    /\ res_fetch' = <<ikind, gkind>>
    /\ res_raised' = EscapedFetch(ikind, gkind)
    /\ res_fetches' = <<res_fetches[1] + 1, res_fetches[2] + 1>>
    /\ res_first' = IF res_fetches = <<0, 0>>
                    THEN <<FetchedInterfaces(ikind, itable), FetchedGroups(gkind, gtable)>>
                    ELSE res_first
    /\ UNCHANGED <<retryVars, logsVars, normVars, pipeVars, capVars, lateVars>>

\* _resolve_interface_name(q) once both caches are set: nothing is fetched.
ResolveCached(q) ==
    /\ res_calls < MaxResolves
    /\ q # <<>>
    /\ interfaces_cache.set
    /\ interface_groups_cache.set
    /\ res_calls' = res_calls + 1
    /\ iface_query' = q
    /\ res_result' = ResolveInterfaceName(q, interfaces_cache.v, interface_groups_cache.v)
    /\ res_raised' = "none"
    /\ UNCHANGED <<interfaces_cache, interface_groups_cache, appliance_groups, groups_fetch_ok, res_fetch,
                   res_fetches, res_first>>
    /\ UNCHANGED <<retryVars, logsVars, normVars, pipeVars, capVars, lateVars>>

ResNext ==
    \/ ResolveEmpty
    \/ \E q \in QueryPool, ikind \in {"dict", "list", "raise"}, itable \in InterfaceTables,
          gkind \in {"rows", "other", "raise"}, gtable \in GroupTables :
            ResolveFetching(q, ikind, itable, gkind, gtable)
    \/ \E q \in QueryPool : ResolveCached(q)

(***************************************************************************)
(* Response normalisation                                                  *)
(***************************************************************************)

Ret(v) == [t |-> "ret", v |-> v, exc |-> ""]
Raise(type) == [t |-> "raise", v |-> ListBody(<<>>), exc |-> type]

\* mutant: the lease normaliser also unwraps a data key
GetDhcpv4LeasesWithData(out) ==
    IF out.t = "exc" THEN Ret(ListBody(<<>>))
    ELSE IF IsDict(out.body) /\ HasKey(out.body.f, "leases") THEN Ret(out.body.f["leases"])
    ELSE IF IsDict(out.body) /\ HasKey(out.body.f, "rows") THEN Ret(out.body.f["rows"])
    ELSE IF IsDict(out.body) /\ HasKey(out.body.f, "data") THEN Ret(out.body.f["data"])
    ELSE IF IsList(out.body) THEN Ret(out.body)
    ELSE Ret(ListBody(<<>>))

\* get_dhcpv4_leases over the outcome of its _make_request call
GetDhcpv4Leases(out) ==
    IF out.t = "exc" THEN Ret(ListBody(<<>>))
    ELSE IF IsDict(out.body) /\ HasKey(out.body.f, "leases") THEN Ret(out.body.f["leases"])
    ELSE IF IsDict(out.body) /\ HasKey(out.body.f, "rows") THEN Ret(out.body.f["rows"])
    ELSE IF IsList(out.body) THEN Ret(out.body)
    ELSE Ret(ListBody(<<>>))

\* get_firewall_rules over the outcome of its _make_request call:
\* list(data.get("rows", [])) runs outside the try, so its TypeError is not wrapped
GetFirewallRules(out) ==
    IF out.t = "exc" THEN Raise("RequestError")
    ELSE IF ~ IsDict(out.body) THEN Raise("RequestError")
    ELSE IF ~ HasKey(out.body.f, "rows") THEN Ret(ListBody(<<>>))
    ELSE IF IsList(out.body.f["rows"]) THEN Ret(out.body.f["rows"])
    ELSE Raise("TypeError")

\* body shapes explored by the model
NormKeys == {"rows", "data", "leases", "unexpected"}
NormValues == {ListBody(<<"r1", "r2">>), ListBody(<<"d1">>), ScalarBody("1")}

NormBodies ==
    {ListBody(<<>>), ListBody(<<"r1", "r2">>), ScalarBody("1")}
    \cup {DictBody(f) : f \in UNION {[K -> NormValues] : K \in SUBSET NormKeys}}

NormOutcomes ==
    {Ok(b) : b \in NormBodies} \cup {Exc("ConnectionError", "Connection failed", ConnFail)}

NormInit ==
    /\ norm_fn = "none"
    /\ norm_in = Ok(ListBody(<<>>))
    /\ norm_out = Ret(ListBody(<<>>))

CallGetDhcpv4Leases(out) ==
    /\ norm_fn' = "get_dhcpv4_leases"
    /\ norm_in' = out
    /\ norm_out' = GetDhcpv4Leases(out)
    /\ UNCHANGED <<retryVars, logsVars, resVars, pipeVars, capVars, lateVars>>

CallGetFirewallRules(out) ==
    /\ norm_fn' = "get_firewall_rules"
    /\ norm_in' = out
    /\ norm_out' = GetFirewallRules(out)
    /\ UNCHANGED <<retryVars, logsVars, resVars, pipeVars, capVars, lateVars>>

NormNext ==
    \/ \E out \in NormOutcomes : CallGetDhcpv4Leases(out)
    \/ \E out \in NormOutcomes : CallGetFirewallRules(out)

(***************************************************************************)
(* Rule change pipeline: the appliance                                     *)
(***************************************************************************)

\* bounds on what the appliance hands out explored by the model
MaxRules == 2
MaxRevisions == 2

StatusOk == <<"o", "k">>
StatusOkRaw == <<" ", "O", "K", " ">>
StatusFailed == <<"f", "a", "i", "l", "e", "d">>

\* how the appliance may treat a request it received
Variants(path) ==
    CASE path = "addRule" -> {"accept", "reject", "nouuid"}
      [] path = "delRule" -> {"normal"}
      [] path = "savepoint" -> {"normal", "norevision"}
      [] path = "apply" -> {"ok", "okraw", "failed"}

\* the appliance has a UUID or a revision left to hand out
Headroom(path, variant) ==
    /\ (path = "addRule" /\ variant = "accept") => next_uuid <= MaxRules
    /\ (path = "savepoint" /\ variant = "normal") => next_rev <= MaxRevisions

Appliance(c, l, u, r, body) == [candidate |-> c, live |-> l, next_uuid |-> u, next_rev |-> r, body |-> body]

\* The appliance handling one request: its state afterwards and its answer.
\* addRule saves into the candidate configuration under a fresh UUID; delRule
\* removes from it; savepoint hands out a fresh revision; apply makes the
\* candidate configuration the running one.
ApplianceProcess(path, arg, variant) ==
    CASE path = "addRule" /\ variant = "accept" ->
            Appliance(candidate \cup {next_uuid}, live, next_uuid + 1, next_rev,
                      DictBody([result |-> "saved", uuid |-> next_uuid]))
      [] path = "addRule" /\ variant = "reject" ->
            Appliance(candidate, live, next_uuid, next_rev, DictBody([result |-> "failed"]))
      [] path = "addRule" /\ variant = "nouuid" ->
            Appliance(candidate, live, next_uuid, next_rev, DictBody([result |-> "saved"]))
      [] path = "delRule" /\ arg \in candidate ->
            Appliance(candidate \ {arg}, live, next_uuid, next_rev, DictBody([result |-> "deleted"]))
      [] path = "delRule" /\ arg \notin candidate ->
            Appliance(candidate, live, next_uuid, next_rev, DictBody([result |-> "not found"]))
      [] path = "savepoint" /\ variant = "normal" ->
            Appliance(candidate, live, next_uuid, next_rev + 1, DictBody([revision |-> next_rev]))
      [] path = "savepoint" /\ variant = "norevision" ->
            Appliance(candidate, live, next_uuid, next_rev, DictBody([status |-> StatusFailed]))
      [] path = "apply" /\ variant = "ok" ->
            Appliance(candidate, candidate, next_uuid, next_rev, DictBody([status |-> StatusOk]))
      [] path = "apply" /\ variant = "okraw" ->
            Appliance(candidate, candidate, next_uuid, next_rev, DictBody([status |-> StatusOkRaw]))
      [] path = "apply" /\ variant = "failed" ->
            Appliance(candidate, live, next_uuid, next_rev, DictBody([status |-> StatusFailed]))
      [] OTHER ->
            Appliance(candidate, live, next_uuid, next_rev, ListBody(<<>>))

\* what can happen to one attempt on the way
Events == {"unreached", "lost", "answered"}

\* One HTTP attempt: the appliance's state afterwards and what requests.request
\* gives the client. "unreached": the connection fails before the appliance
\* sees the request; "lost": the appliance handles it and the answer is lost.
Exchange(path, arg, ev, variant) ==
    LET after == ApplianceProcess(path, arg, variant)
        same == Appliance(candidate, live, next_uuid, next_rev, InvalidBody)
    IN CASE ev = "unreached" -> [state |-> same, resp |-> ConnFail, reached |-> FALSE]
         [] ev = "lost" -> [state |-> after, resp |-> TimeoutFail, reached |-> TRUE]
         [] ev = "answered" -> [state |-> after, resp |-> Http(200, after.body), reached |-> TRUE]

(***************************************************************************)
(* Rule change pipeline: client methods                                    *)
(***************************************************************************)

MOk(uuid, rev) == [t |-> "ok", type |-> "", uuid |-> uuid, revision |-> rev, result |-> "success"]
MExc(type) == [t |-> "exc", type |-> type, uuid |-> 0, revision |-> 0, result |-> ""]

\* mutant: a saved answer without a uuid is given a UUID made up by the client
AddFirewallRuleInventsUuid(out) ==
    IF out.t = "exc" THEN MExc(out.type)
    ELSE IF ~ IsDict(out.body) THEN MExc("ResponseError")
    ELSE IF ~ GetEq(out.body, "result", "saved") THEN MExc("ResponseError")
    ELSE IF ~ HasKey(out.body.f, "uuid") THEN MOk(next_uuid, 0)
    ELSE MOk(out.body.f["uuid"], 0)

\* mutant: add_firewall_rule reports success whatever its request got
AddFirewallRuleLenient(out) ==
    IF out.t = "ok" /\ IsDict(out.body) /\ HasKey(out.body.f, "uuid")
    THEN MOk(out.body.f["uuid"], 0)
    ELSE MOk(0, 0)

\* add_firewall_rule over the outcome of its _make_request call
AddFirewallRule(out) ==
    IF out.t = "exc" THEN MExc(out.type)
    ELSE IF ~ IsDict(out.body) THEN MExc("ResponseError")
    ELSE IF ~ GetEq(out.body, "result", "saved") \/ ~ HasKey(out.body.f, "uuid")
        THEN MExc("ResponseError")
    ELSE MOk(out.body.f["uuid"], 0)

\* delete_firewall_rule over the outcome of its _make_request call
\* (a body that is not a dict has no .get: AttributeError, wrapped in RequestError)
DeleteFirewallRule(out) ==
    IF out.t = "exc" THEN MExc(out.type)
    ELSE IF ~ IsDict(out.body) THEN MExc("RequestError")
    ELSE IF ~ GetEq(out.body, "result", "deleted") THEN MExc("ResponseError")
    ELSE MOk(0, 0)

\* mutant: a savepoint answer without a revision is let through with revision 0
SavepointStepUnchecked(out) ==
    IF out.t = "exc" THEN MExc(out.type)
    ELSE IF IsDict(out.body) /\ HasKey(out.body.f, "revision")
        THEN MOk(0, out.body.f["revision"])
    ELSE MOk(0, 0)

\* apply_firewall_changes up to `revision = savepoint_resp["revision"]`
\* (`"revision" in` a list is False; on a number it is a TypeError, wrapped)
SavepointStep(out) ==
    IF out.t = "exc" THEN MExc(out.type)
    ELSE IF out.body.t = "scalar" THEN MExc("RequestError")
    ELSE IF ~ (IsDict(out.body) /\ HasKey(out.body.f, "revision")) THEN MExc("ResponseError")
    ELSE MOk(0, out.body.f["revision"])

RECURSIVE StripLeft(_)
StripLeft(str) == IF str # <<>> /\ Head(str) = " " THEN StripLeft(Tail(str)) ELSE str

RECURSIVE StripRight(_)
StripRight(str) ==
    IF str # <<>> /\ str[Len(str)] = " " THEN StripRight(SubSeq(str, 1, Len(str) - 1)) ELSE str

\* apply_resp.get("status", "").strip().lower()
ApplyStatus(body) ==
    IF HasKey(body.f, "status") THEN LowerStr(StripRight(StripLeft(body.f["status"]))) ELSE <<>>

\* mutant: any dict answer to apply/{revision} counts as applied
ApplyStepLenient(out, rev) ==
    IF out.t = "exc" THEN MExc(out.type)
    ELSE IF ~ IsDict(out.body) THEN MExc("RequestError")
    ELSE MOk(0, rev)

\* apply_firewall_changes from the answer to apply/{revision} on
ApplyStep(out, rev) ==
    IF out.t = "exc" THEN MExc(out.type)
    ELSE IF ~ IsDict(out.body) THEN MExc("RequestError")
    ELSE IF ApplyStatus(out.body) \notin {StatusOk, <<"s", "u", "c", "c", "e", "s", "s">>}
        THEN MExc("ResponseError")
    ELSE MOk(0, rev)

\* f"/api/firewall/filter/apply/{revision}"
ApplyArg(rev) == rev

(***************************************************************************)
(* Rule change pipeline: MkfwRuleTool.execute and RmfwRuleTool.execute     *)
(***************************************************************************)

NoResult == [status |-> "none", rule_uuid |-> 0, applied |-> "absent", revision |-> 0, error |-> ""]
ToolError(e) == [status |-> "error", rule_uuid |-> 0, applied |-> "absent", revision |-> 0, error |-> e]
ToolPartial(u, e) == [status |-> "partial_success", rule_uuid |-> u, applied |-> "absent", revision |-> 0, error |-> e]
ToolApplied(u, rev) == [status |-> "success", rule_uuid |-> u, applied |-> "True", revision |-> rev, error |-> ""]
ToolNotApplied(u) == [status |-> "success", rule_uuid |-> u, applied |-> "False", revision |-> 0, error |-> ""]

\* mutant: no outer `except Exception`; the exception leaves execute()
AfterApplyUncaught(r, u) ==
    IF r.t = "exc"
        THEN [status |-> "raised", rule_uuid |-> 0, applied |-> "absent", revision |-> 0, error |-> r.type]
    ELSE IF r.result # "success" THEN ToolPartial(u, "failed to apply changes")
    ELSE ToolApplied(u, r.revision)

\* execute() once apply_firewall_changes returned r or raised it: an exception
\* reaches the outer `except Exception`; the partial_success branch needs a
\* returned result other than "success"
AfterApply(r, u) ==
    IF r.t = "exc" THEN ToolError(r.type)
    ELSE IF r.result # "success" THEN ToolPartial(u, "failed to apply changes")
    ELSE ToolApplied(u, r.revision)

\* mutant: apply=false still starts the apply step
WantsApplyAlways(p) == TRUE

\* `apply_changes = params.get("apply", True)`
WantsApply(p) == p.apply

ActPass == <<"p", "a", "s", "s">>
ActBlock == <<"b", "l", "o", "c", "k">>
ActReject == <<"r", "e", "j", "e", "c", "t">>

\* FirewallRuleSpec.validate_action
ValidAction(a) == LowerStr(a) \in {ActPass, ActBlock, ActReject}

\* params of mkfw_rule explored by the model
MkfwParams ==
    [description : {"", "block-test"},
     action : {ActPass, <<"B", "l", "o", "c", "k">>, <<"d", "r", "o", "p">>},
     apply : BOOLEAN,
     rule_uuid : {0}]

\* params of rmfw_rule explored by the model (rule_uuid 0: missing)
RmfwParams ==
    [description : {""}, action : {ActPass}, apply : BOOLEAN, rule_uuid : 0..MaxRules]

PipeInit ==
    /\ candidate = {}
    /\ live = {}
    /\ next_uuid = 1
    /\ next_rev = 1
    /\ ppc = "idle"
    /\ tool = "none"
    /\ params = [description |-> "", action |-> ActPass, apply |-> FALSE, rule_uuid |-> 0]
    /\ req_attempts = 0
    /\ rule_uuid = 0
    /\ revision = 0
    /\ sent = <<>>
    /\ result = NoResult
    /\ peer_pc = "idle"
    /\ peer_rule_uuid = 0
    /\ peer_revision = 0
    /\ peer_result = NoResult

OtherVars == <<retryVars, logsVars, resVars, normVars, capVars, peerVars, lateVars>>

\* MkfwRuleTool.execute up to the call of add_firewall_rule
StartMkfw(p) ==
    /\ ppc \in {"idle", "done"}
    /\ tool' = "mkfw_rule"
    /\ params' = p
    /\ req_attempts' = 0
    /\ rule_uuid' = 0
    /\ revision' = 0
    /\ sent' = <<>>
    /\ IF p.description = ""
       THEN ppc' = "done" /\ result' = ToolError("Description is required")
       ELSE IF ~ ValidAction(p.action)
       THEN ppc' = "done" /\ result' = ToolError("Invalid rule parameters")
       ELSE ppc' = "addRule" /\ result' = NoResult
    /\ UNCHANGED <<applianceVars, OtherVars>>

\* RmfwRuleTool.execute up to the call of delete_firewall_rule
StartRmfw(p) ==
    /\ ppc \in {"idle", "done"}
    /\ tool' = "rmfw_rule"
    /\ params' = p
    /\ req_attempts' = 0
    /\ revision' = 0
    /\ sent' = <<>>
    /\ IF p.rule_uuid = 0
       THEN ppc' = "done" /\ rule_uuid' = 0 /\ result' = ToolError("rule_uuid is required")
       ELSE ppc' = "delRule" /\ rule_uuid' = p.rule_uuid /\ result' = NoResult
    /\ UNCHANGED <<applianceVars, OtherVars>>

\* the appliance after one attempt, and the request logged with what it got
Attempted(path, arg, x) ==
    /\ candidate' = x.state.candidate
    /\ live' = x.state.live
    /\ next_uuid' = x.state.next_uuid
    /\ next_rev' = x.state.next_rev
    /\ sent' = Append(sent, [path |-> path, arg |-> arg, got |-> MakeRequestOnce(x.resp),
                             added |-> x.state.candidate \ candidate])

\* a failed attempt with attempts left: the retry wrapper sleeps and loops
Retrying(out) == out.t = "exc" /\ ~ GivesUp(req_attempts + 1)

\* after the mutation call: the tool returns, or goes on to apply_firewall_changes
AfterMutation(r, u) ==
    IF r.t = "exc" THEN
        /\ ppc' = "done"
        /\ result' = ToolError(r.type)
        /\ UNCHANGED <<rule_uuid, req_attempts>>
    ELSE IF r.result # "success" THEN
        /\ ppc' = "done"
        /\ result' = ToolError("Failed")
        /\ UNCHANGED <<rule_uuid, req_attempts>>
    ELSE IF WantsApply(params) THEN
        /\ ppc' = "savepoint"
        /\ rule_uuid' = u
        /\ req_attempts' = 0
        /\ UNCHANGED result
    ELSE
        /\ ppc' = "done"
        /\ rule_uuid' = u
        /\ result' = ToolNotApplied(u)
        /\ UNCHANGED req_attempts

\* one attempt of the addRule request of add_firewall_rule, and what follows it
AddRuleAttempt(ev, variant) ==
    /\ ppc = "addRule"
    /\ variant \in Variants("addRule")
    /\ Headroom("addRule", variant)
    /\ LET x == Exchange("addRule", 0, ev, variant)
           out == MakeRequestOnce(x.resp)
       IN /\ Attempted("addRule", 0, x)
          /\ IF Retrying(out)
             THEN req_attempts' = req_attempts + 1 /\ UNCHANGED <<ppc, rule_uuid, result>>
             ELSE AfterMutation(AddFirewallRule(out), AddFirewallRule(out).uuid)
    /\ UNCHANGED <<tool, params, revision, OtherVars>>

\* one attempt of the delRule request of delete_firewall_rule, and what follows it
DelRuleAttempt(ev, variant) ==
    /\ ppc = "delRule"
    /\ variant \in Variants("delRule")
    /\ LET x == Exchange("delRule", rule_uuid, ev, variant)
           out == MakeRequestOnce(x.resp)
       IN /\ Attempted("delRule", rule_uuid, x)
          /\ IF Retrying(out)
             THEN req_attempts' = req_attempts + 1 /\ UNCHANGED <<ppc, rule_uuid, result>>
             ELSE AfterMutation(DeleteFirewallRule(out), rule_uuid)
    /\ UNCHANGED <<tool, params, revision, OtherVars>>

\* one attempt of the savepoint request of apply_firewall_changes
SavepointAttempt(ev, variant) ==
    /\ ppc = "savepoint"
    /\ variant \in Variants("savepoint")
    /\ Headroom("savepoint", variant)
    /\ LET x == Exchange("savepoint", 0, ev, variant)
           out == MakeRequestOnce(x.resp)
       IN /\ Attempted("savepoint", 0, x)
          /\ IF Retrying(out)
             THEN req_attempts' = req_attempts + 1 /\ UNCHANGED <<ppc, revision, result>>
             ELSE IF SavepointStep(out).t = "exc"
             THEN /\ ppc' = "done"
                  /\ result' = AfterApply(SavepointStep(out), rule_uuid)
                  /\ UNCHANGED <<revision, req_attempts>>
             ELSE /\ ppc' = "apply"
                  /\ revision' = SavepointStep(out).revision
                  /\ req_attempts' = 0
                  /\ UNCHANGED result
    /\ UNCHANGED <<tool, params, rule_uuid, OtherVars>>

\* one attempt of the apply/{revision} request of apply_firewall_changes
ApplyAttempt(ev, variant) ==
    /\ ppc = "apply"
    /\ variant \in Variants("apply")
    /\ LET x == Exchange("apply", ApplyArg(revision), ev, variant)
           out == MakeRequestOnce(x.resp)
       IN /\ Attempted("apply", ApplyArg(revision), x)
          /\ IF Retrying(out)
             THEN req_attempts' = req_attempts + 1 /\ UNCHANGED <<ppc, result>>
             ELSE /\ ppc' = "done"
                  /\ result' = AfterApply(ApplyStep(out, revision), rule_uuid)
                  /\ UNCHANGED req_attempts
    /\ UNCHANGED <<tool, params, rule_uuid, revision, OtherVars>>

PipeNext ==
    \/ \E p \in MkfwParams : StartMkfw(p)
    \/ \E p \in RmfwParams : StartRmfw(p)
    \/ \E ev \in Events, variant \in {"accept", "reject", "nouuid"} : AddRuleAttempt(ev, variant)
    \/ \E ev \in Events : DelRuleAttempt(ev, "normal")
    \/ \E ev \in Events, variant \in {"normal", "norevision"} : SavepointAttempt(ev, variant)
    \/ \E ev \in Events, variant \in {"ok", "okraw", "failed"} : ApplyAttempt(ev, variant)

(***************************************************************************)
(* Rule change pipeline: two callers on one appliance                      *)
(***************************************************************************)

\* the params both callers of the race use: a valid rule, applied at once
RaceParams == [description |-> "block-test", action |-> ActBlock, apply |-> TRUE, rule_uuid |-> 0]

\* the appliance after a request of the second caller
PeerAttempted(x) ==
    /\ candidate' = x.state.candidate
    /\ live' = x.state.live
    /\ next_uuid' = x.state.next_uuid
    /\ next_rev' = x.state.next_rev

\* the second caller enters MkfwRuleTool.execute; nothing in the client makes
\* it wait for the first
PeerStart ==
    /\ peer_pc \in {"idle", "done"}
    /\ peer_pc' = "addRule"
    /\ peer_rule_uuid' = 0
    /\ peer_revision' = 0
    /\ peer_result' = NoResult
    /\ UNCHANGED <<applianceVars, toolVars, retryVars, logsVars, resVars, normVars, capVars, lateVars>>

\* its add_firewall_rule, answered at the first attempt
PeerAddRule ==
    /\ peer_pc = "addRule"
    /\ Headroom("addRule", "accept")
    /\ LET x == Exchange("addRule", 0, "answered", "accept")
           r == AddFirewallRule(MakeRequestOnce(x.resp))
       IN /\ PeerAttempted(x)
          /\ IF r.t = "exc" \/ r.result # "success"
             THEN peer_pc' = "done" /\ peer_result' = ToolError("Failed") /\ UNCHANGED peer_rule_uuid
             ELSE peer_pc' = "savepoint" /\ peer_rule_uuid' = r.uuid /\ UNCHANGED peer_result
    /\ UNCHANGED <<peer_revision, toolVars, retryVars, logsVars, resVars, normVars, capVars, lateVars>>

\* the savepoint request of its apply_firewall_changes
PeerSavepoint ==
    /\ peer_pc = "savepoint"
    /\ Headroom("savepoint", "normal")
    /\ LET x == Exchange("savepoint", 0, "answered", "normal")
           r == SavepointStep(MakeRequestOnce(x.resp))
       IN /\ PeerAttempted(x)
          /\ IF r.t = "exc"
             THEN peer_pc' = "done" /\ peer_result' = AfterApply(r, peer_rule_uuid) /\ UNCHANGED peer_revision
             ELSE peer_pc' = "apply" /\ peer_revision' = r.revision /\ UNCHANGED peer_result
    /\ UNCHANGED <<peer_rule_uuid, toolVars, retryVars, logsVars, resVars, normVars, capVars, lateVars>>

\* the apply/{revision} request of its apply_firewall_changes
PeerApply ==
    /\ peer_pc = "apply"
    /\ LET x == Exchange("apply", ApplyArg(peer_revision), "answered", "ok")
       IN /\ PeerAttempted(x)
          /\ peer_pc' = "done"
          /\ peer_result' = AfterApply(ApplyStep(MakeRequestOnce(x.resp), peer_revision), peer_rule_uuid)
    /\ UNCHANGED <<peer_rule_uuid, peer_revision, toolVars, retryVars, logsVars, resVars, normVars, capVars, lateVars>>

\* both callers run MkfwRuleTool.execute(RaceParams) against the same appliance
RaceNext ==
    \/ StartMkfw(RaceParams)
    \/ \E ev \in Events : AddRuleAttempt(ev, "accept")
    \/ \E ev \in Events : SavepointAttempt(ev, "normal")
    \/ \E ev \in Events, variant \in {"ok", "failed"} : ApplyAttempt(ev, variant)
    \/ PeerStart
    \/ PeerAddRule
    \/ PeerSavepoint
    \/ PeerApply

(***************************************************************************)
(* Packet capture: interface resolution of start_capture                   *)
(***************************************************************************)

wan == <<"w", "a", "n">>
lan == <<"l", "a", "n">>
opt1 == <<"o", "p", "t", "1">>
igb0 == <<"i", "g", "b", "0">>

\* one interface entry; a missing field is the empty string
Entry(key, device, name, identifier, description, enabled) ==
    [key |-> key, device |-> device, name |-> name, identifier |-> identifier,
     description |-> description, enabled |-> enabled]

\* answers of /api/interfaces/overview/export explored by the model, keyed as
\* execute() keys them (device or identifier or name)
ExportTables ==
    { <<>>,
      <<Entry(ax1, ax1, <<>>, wan, <<"W", "A", "N">>, TRUE)>>,
      <<Entry(igb0, igb0, <<>>, opt1, <<"D", "M", "Z">>, TRUE)>>,
      <<Entry(igb0, igb0, <<>>, lan, <<>>, FALSE), Entry(ax10, ax10, <<>>, opt1, <<"L", "A", "N">>, TRUE)>> }

\* interface names get_interfaces may return
SupplementLists == {<<>>, <<lan>>}

\* examples/mock_data/interfaces.json: unreadable, or with one interface
MockTables == {<<>>, <<Entry(<<"e", "m", "0">>, <<>>, <<"e", "m", "0">>, <<>>, <<"L", "A", "N">>, FALSE)>>}

\* what one InterfaceListTool.execute meets: the export answer or an exception,
\* the get_interfaces answer or an exception, and the mock file
Fetch(table, exportOk, names, supplementOk, mock) ==
    [export |-> IF exportOk THEN [t |-> "ok", v |-> table] ELSE [t |-> "raise", v |-> <<>>],
     supplement |-> IF supplementOk THEN [t |-> "ok", v |-> names] ELSE [t |-> "raise", v |-> <<>>],
     mock |-> mock]

Keys(merged) == {merged[i].key : i \in DOMAIN merged}

\* `if entry.get("name") and entry["name"] not in merged: merged[entry["name"]] = entry`
RECURSIVE Supplemented(_, _, _)
Supplemented(merged, names, i) ==
    IF i > Len(names) THEN merged
    ELSE IF names[i] # <<>> /\ names[i] \notin Keys(merged)
        THEN Supplemented(Append(merged, Entry(names[i], <<>>, names[i], <<>>, <<>>, FALSE)), names, i + 1)
    ELSE Supplemented(merged, names, i + 1)

\* `merged` of InterfaceListTool.execute: the export entries, supplemented by
\* get_interfaces, and the mock file when that leaves nothing
Merged(fetch) ==
    LET fetched == Supplemented(IF fetch.export.t = "ok" THEN fetch.export.v ELSE <<>>,
                                IF fetch.supplement.t = "ok" THEN fetch.supplement.v ELSE <<>>, 1)
    IN IF fetched # <<>> THEN fetched ELSE fetch.mock

\* `iface.get("device") or iface.get("name")`; None is the empty string here
DeviceOf(e) == IF e.device # <<>> THEN e.device ELSE e.name

\* InterfaceListTool.resolve_logical_name: identifier, then description, among
\* the enabled interfaces; then either among all interfaces; else None (<<>>)
ResolveLogicalName(logical, merged) ==
    LET lc == LowerStr(logical)
        ById == {i \in DOMAIN merged : merged[i].enabled /\ LowerStr(merged[i].identifier) = lc}
        ByDesc == {i \in DOMAIN merged : merged[i].enabled /\ LowerStr(merged[i].description) = lc}
        ByAny == {i \in DOMAIN merged : LowerStr(merged[i].identifier) = lc
                                         \/ LowerStr(merged[i].description) = lc}
        FirstOf(S) == CHOOSE i \in S : \A j \in S : i <= j
    IN IF ById # {} THEN DeviceOf(merged[FirstOf(ById)])
       ELSE IF ByDesc # {} THEN DeviceOf(merged[FirstOf(ByDesc)])
       ELSE IF ByAny # {} THEN DeviceOf(merged[FirstOf(ByAny)])
       ELSE <<>>

\* common_mappings of start_capture
CommonMappings(name) ==
    CASE name = wan -> ax1
      [] name = lan -> <<"a", "x", "0", "_", "v", "l", "a", "n", "2">>
      [] name = <<"w", "i", "f", "i">> -> <<"a", "x", "0", "_", "v", "l", "a", "n", "8", "1">>
      [] name = <<"g", "u", "e", "s", "t">> -> <<"a", "x", "0", "_", "v", "l", "a", "n", "4">>
      [] name = lab -> <<"a", "x", "0", "_", "v", "l", "a", "n", "3">>
      [] name = <<"m", "g", "m", "t">> -> <<"i", "g", "b", "3">>
      [] OTHER -> <<>>

\* start_capture up to resolved_iface: [device |-> resolved_iface, source |-> branch]
ResolveCaptureInterface(interface, first, second) ==
    IF ResolveLogicalName(interface, Merged(first)) # <<>>
        THEN [device |-> ResolveLogicalName(interface, Merged(first)), source |-> "live"]
    ELSE IF interface \in Keys(Merged(second))
        THEN [device |-> interface, source |-> "direct"]
    ELSE IF CommonMappings(LowerStr(interface)) # <<>>
        THEN [device |-> CommonMappings(LowerStr(interface)), source |-> "static"]
    ELSE [device |-> interface, source |-> "asis"]

\* values of `interface` explored by the model
CaptureInterfaces == {wan, <<"W", "A", "N">>, lan, lab, <<"d", "m", "z">>, igb0, opt1}

\* the export of this execute() was answered, with at least one entry
LiveFetched(fetch) == fetch.export.t = "ok" /\ fetch.export.v # <<>>

CapInit ==
    /\ cap_interface = <<>>
    /\ cap_fetched = FALSE
    /\ cap_merged = <<>>
    /\ cap_resolved = <<>>
    /\ cap_source = "none"

\* start_capture(interface): the resolving execute({"resolve": interface}) meets
\* `first`; the execute({}) of the direct-name check meets `second`
StartCapture(interface, first, second) ==
    /\ cap_interface' = interface
    /\ cap_merged' = Merged(first)
    /\ cap_fetched' = (LiveFetched(first) /\ LiveFetched(second))
    /\ cap_resolved' = ResolveCaptureInterface(interface, first, second).device
    /\ cap_source' = ResolveCaptureInterface(interface, first, second).source
    /\ UNCHANGED <<retryVars, logsVars, resVars, normVars, pipeVars, lateVars>>

\* the appliance's interfaces are the same for both executes of one call;
\* each of the four requests succeeds or fails on its own
CapNext == \E interface \in CaptureInterfaces, table \in ExportTables, names \in SupplementLists,
              mock \in MockTables, ok \in [1..4 -> BOOLEAN] :
                StartCapture(interface, Fetch(table, ok[1], names, ok[2], mock),
                                        Fetch(table, ok[3], names, ok[4], mock))

(***************************************************************************)
(* One call of _detect_endpoint on an arbitrary candidate list             *)
(***************************************************************************)

\* candidate lists explored by the model: the list of __init__ with the
\* environment value unset, set to a path of its own, or set to a path that
\* is also hard-coded; and lists with nothing to contact
ProbeLists ==
    {Candidates(env) : env \in EnvValues \cup {LogPaths[2]}} \cup {<<>>, <<PyNone, PyNone>>}

ProbeInit ==
    /\ pb_eps = <<>>
    /\ pb_answer = [ep \in CandidateSet |-> 0]
    /\ pb_ep = "unprobed"
    /\ pb_contacted = <<>>

\* _detect_endpoint(name, eps) while the appliance answers as `answer` says
DetectEndpointCall(eps, answer) ==
    /\ pb_ep = "unprobed"
    /\ pb_eps' = eps
    /\ pb_answer' = answer
    /\ pb_ep' = DetectEndpoint(eps, answer).ep
    /\ pb_contacted' = DetectEndpoint(eps, answer).contacted
    /\ UNCHANGED <<earlyVars, wireVars, tlsVars, leaseVars, jwtVars>>

ProbeNext == \E eps \in ProbeLists, answer \in [CandidateSet -> ProbeAnswers] : DetectEndpointCall(eps, answer)

(***************************************************************************)
(* The enabled flag on the wire: create-rule and toggle-rule requests      *)
(***************************************************************************)

\* Python values, tagged with their type
BoolV(b) == [t |-> "bool", v |-> b]
StrV(str) == [t |-> "str", v |-> str]
IntV(n) == [t |-> "int", v |-> n]
Absent == [t |-> "absent", v |-> ""]

\* values of `enabled` explored by the model
EnabledValues ==
    {Absent, BoolV("True"), BoolV("False"), StrV("0"), StrV("1"), StrV("false"), StrV(""),
     StrV("maybe"), IntV("0"), IntV("1"), IntV("2")}

\* the field `enabled: bool = True` of FirewallRuleSpec: the default when
\* absent, pydantic's coercion otherwise ("invalid": ValidationError)
SpecEnabled(v) ==
    IF v = Absent THEN "True"
    ELSE IF v \in {BoolV("True"), StrV("1"), IntV("1")} THEN "True"
    ELSE IF v \in {BoolV("False"), StrV("0"), StrV("false"), IntV("0")} THEN "False"
    ELSE "invalid"

\* Python truth value, as in `"1" if enabled else "0"`
Truthy(v) ==
    IF v.t = "bool" THEN v.v = "True"
    ELSE IF v.t = "str" THEN v.v # ""
    ELSE IF v.t = "int" THEN v.v # "0"
    ELSE FALSE

\* a dict with key k only when `present`
Optional(present, k, v) == IF present THEN (k :> v) ELSE [x \in {} |-> v]

\* mutant: the rule's flag is copied into the body as it is
RuleDataNativeBool(p) ==
    [description |-> StrV(p.description), action |-> StrV("pass"), protocol |-> StrV("ANY"),
     source_net |-> StrV("any"), destination_net |-> StrV("any")]
    @@ Optional(p.interface # "", "interface", StrV(p.interface))
    @@ ("enabled" :> BoolV(SpecEnabled(p.enabled)))
    @@ Optional(p.source_port # "any", "source_port", StrV(p.source_port))
    @@ Optional(p.destination_port # "any", "destination_port", StrV(p.destination_port))
    @@ Optional(p.gateway # "", "gateway", StrV(p.gateway))

\* rule_data of MkfwRuleTool.execute for a valid rule_spec (action, protocol
\* and the nets at their defaults): optional fields only when not default
RuleData(p) ==
    [description |-> StrV(p.description), action |-> StrV("pass"), protocol |-> StrV("ANY"),
     source_net |-> StrV("any"), destination_net |-> StrV("any")]
    @@ Optional(p.interface # "", "interface", StrV(p.interface))
    @@ Optional(SpecEnabled(p.enabled) = "False", "enabled", StrV("0"))
    @@ Optional(p.source_port # "any", "source_port", StrV(p.source_port))
    @@ Optional(p.destination_port # "any", "destination_port", StrV(p.destination_port))
    @@ Optional(p.gateway # "", "gateway", StrV(p.gateway))

\* params of mkfw_rule explored for the request body
WireParams ==
    [description : {"block-test"}, interface : {"", "wan"}, enabled : EnabledValues,
     source_port : {"any", "443"}, destination_port : {"any", "22"}, gateway : {"", "WAN_GW"}]

NoRequest == [path |-> "none", flag |-> Absent, body |-> [x \in {} |-> Absent]]

WireInit ==
    /\ wire_op = "none"
    /\ wire_in = Absent
    /\ wire_req = NoRequest
    /\ wire_result = "none"

\* MkfwRuleTool.execute from the validation of params to the addRule request
\* that add_firewall_rule hands to _make_request (json=rule_data)
CreateRuleRequest(p) ==
    /\ wire_op' = "create"
    /\ wire_in' = p.enabled
    /\ IF SpecEnabled(p.enabled) = "invalid"
       THEN wire_req' = NoRequest /\ wire_result' = "error"
       ELSE /\ wire_req' = [path |-> "/api/firewall/filter/addRule",
                            flag |-> IF "enabled" \in DOMAIN RuleData(p) THEN RuleData(p)["enabled"] ELSE Absent,
                            body |-> RuleData(p)]
            /\ wire_result' = "sent"
    /\ UNCHANGED <<earlyVars, probeVars, tlsVars, leaseVars, jwtVars>>

\* toggle_firewall_rule(uuid, enabled): POST toggleRule/{uuid}/{status}, then
\* the check of the answer
ToggleRule(uuid, enabled, resp) ==
    /\ wire_op' = "toggle"
    /\ wire_in' = enabled
    /\ wire_req' = [path |-> "/api/firewall/filter/toggleRule", flag |-> StrV(IF Truthy(enabled) THEN "1" ELSE "0"),
                    body |-> ("uuid" :> IntV(uuid))]
    /\ LET out == MakeRequest(Steady(resp)).out
       IN wire_result' = IF out.t = "exc" THEN out.type
                         ELSE IF ~ GetEq(out.body, "result", "ok") THEN "ResponseError"
                         ELSE "success"
    /\ UNCHANGED <<earlyVars, probeVars, tlsVars, leaseVars, jwtVars>>

WireNext ==
    \/ \E p \in WireParams : CreateRuleRequest(p)
    \/ \E uuid \in {"1", "2"}, enabled \in EnabledValues,
          resp \in {ConnFail, Http(200, DictBody([result |-> "ok"])), Http(200, DictBody([result |-> "failed"])),
                    Http(200, DictBody(EmptyDict))} :
            ToggleRule(uuid, enabled, resp)

(***************************************************************************)
(* Certificate verification of the requests of one client                  *)
(***************************************************************************)

TlsInit ==
    /\ tls_verify_ssl = "unset"
    /\ tls_log = <<>>

\* OPNsenseClient.__init__(config): config is copied, its verify_ssl entry is
\* never read; the probe sends each GET with verify=False
TlsConstruct(flag, env, answer) ==
    /\ tls_verify_ssl = "unset"
    /\ tls_verify_ssl' = flag
    /\ tls_log' = [i \in DOMAIN DetectEndpoint(Candidates(env), answer).contacted |->
                      [via |-> "_detect_endpoint", path |-> DetectEndpoint(Candidates(env), answer).contacted[i],
                       asked |-> "absent", verify |-> FALSE]]
    /\ UNCHANGED <<earlyVars, probeVars, wireVars, leaseVars, jwtVars>>

\* one _make_request call: `kwargs["verify"] = False` replaces whatever the
\* caller passed, and every attempt of the retry loop sends the same kwargs
TlsMakeRequest(path, kwverify, resps) ==
    /\ tls_verify_ssl # "unset"
    /\ tls_log' = [i \in 1..MakeRequest(resps).n |-> [via |-> "_make_request", path |-> path, asked |-> kwverify, verify |-> FALSE]]
    /\ UNCHANGED <<tls_verify_ssl, earlyVars, probeVars, wireVars, leaseVars, jwtVars>>

TlsNext ==
    \/ \E flag \in {"True", "False", "absent"}, env \in EnvValues, answer \in [CandidateSet -> {200, 404, 0}] :
            TlsConstruct(flag, env, answer)
    \/ \E path \in {"/api/firewall/filter/addRule", "/api/dhcpv4/leases/search_lease", "/api/interfaces/overview/export",
                    "/api/diagnostics/interface/getArp"},
          kwverify \in {"True", "False", "absent"},
          resps \in {Steady(ConnFail), Steady(Http(200, DictBody(EmptyDict))),
                     <<ConnFail, Http(200, DictBody(EmptyDict)), ConnFail>>} :
            TlsMakeRequest(path, kwverify, resps)

(***************************************************************************)
(* DHCPLeaseDeleteTool: deleting leases by hostname, IP or MAC             *)
(***************************************************************************)

\* a JSON null in a lease field (strings are sequences of characters here)
NoneField == <<"None">>

\* mac.replace("-", "").replace(":", "").replace(".", "").lower()
StripMac(mac) == LowerStr(SelectSeq(mac, LAMBDA c : c \notin {"-", ":", "."}))

\* ":".join(mac[i : i + 2] for i in range(0, len(mac), 2))
RECURSIVE JoinPairs(_)
JoinPairs(str) ==
    IF Len(str) <= 2 THEN str
    ELSE SubSeq(str, 1, 2) \o <<":">> \o JoinPairs(SubSeq(str, 3, Len(str)))

NormalizeMac(mac) == JoinPairs(StripMac(mac))

\* `lease.get("ip") or lease.get("address", "")`
LeaseIp(lease) == IF lease.ip # "" THEN lease.ip ELSE lease.address

\* `.lower()` on a null field raises AttributeError, for every lease of the
\* list, whether it would match or not
FindRaises(leases) ==
    \E i \in DOMAIN leases : leases[i].mac = NoneField \/ leases[i].hostname = NoneField

\* the condition of _find_lease_by_criteria: any given criterion matches
LeaseMatches(lease, c) ==
    \/ c.ip # "" /\ LeaseIp(lease) = c.ip
    \/ c.mac # <<>> /\ NormalizeMac(LowerStr(lease.mac)) = NormalizeMac(c.mac)
    \/ c.hostname # <<>> /\ LowerStr(lease.hostname) = LowerStr(c.hostname)

\* indices of the matching leases, in list order
FindLeaseByCriteria(leases, c) == SelectSeq([i \in DOMAIN leases |-> i], LAMBDA i : LeaseMatches(leases[i], c))

\* mutant: failed deletions do not change the status
LeaseStatusIgnoringErrors(deleted, errors) == IF deleted # <<>> THEN "success" ELSE "no_matches"

\* the status of the result built at the end of execute()
LeaseStatus(deleted, errors) ==
    IF errors # <<>> THEN (IF deleted # <<>> THEN "partial_success" ELSE "error")
    ELSE IF deleted # <<>> THEN "success" ELSE "no_matches"

\* the _make_request calls of one deletion loop: one per matching lease that
\* has an IP; the IP is the last segment of the path, no argument is passed
DeleteCalls(family, leases, matching, answers) ==
    LET withIp == SelectSeq(matching, LAMBDA i : LeaseIp(leases[i]) # "")
    IN [k \in DOMAIN withIp |->
           LET lease == leases[withIp[k]]
               done == MakeRequest(answers[LeaseIp(lease)])
           IN [method |-> "POST",
               path |-> <<"api", family, "leases", "del_lease", LeaseIp(lease)>>,
               kwargs |-> EmptyDict,
               entry |-> withIp[k],
               attempts |-> done.n,
               ok |-> done.out.t = "ok",
               deleted |-> [ip |-> LeaseIp(lease), mac |-> lease.mac, hostname |-> lease.hostname,
                            type |-> IF family = "dhcpv4" THEN "IPv4" ELSE "IPv6", status |-> "deleted"]]]

Deleted(calls) == [k \in DOMAIN SelectSeq(calls, LAMBDA c : c.ok) |-> SelectSeq(calls, LAMBDA c : c.ok)[k].deleted]

Failed(calls) == SelectSeq(calls, LAMBDA c : ~ c.ok)

\* the early and the exceptional results carry neither total_deleted nor errors
ErrorResult(stage, error) ==
    [stage |-> stage, status |-> "error", error |-> error, deleted_leases |-> <<>>,
     keys |-> {"status", "error", "deleted_leases"}, total_deleted |-> 0, errors |-> 0]

Ip5 == "10.0.0.5"
Ip6 == "10.0.0.6"
Ip7 == "10.0.0.7"
Ip8 == "10.0.0.8"
IpV6 == "fd00::5"

mac_ab01 == <<"a", "b", ":", "0", "1">>
nas == <<"n", "a", "s">>

\* the search_lease rows explored: by ip or by address, MACs in three
\* notations, a row without any IP and a row whose MAC is null
Leases4 ==
    { [ip |-> Ip5, address |-> "", mac |-> mac_ab01, hostname |-> nas],
      [ip |-> "", address |-> Ip6, mac |-> <<"A", "B", "0", "1">>, hostname |-> <<"N", "a", "s">>],
      [ip |-> Ip7, address |-> "", mac |-> <<"c", "d", ":", "0", "2">>, hostname |-> <<>>],
      [ip |-> "", address |-> "", mac |-> <<"a", "b", "-", "0", "1">>, hostname |-> <<"l", "a", "b">>],
      [ip |-> Ip8, address |-> "", mac |-> NoneField, hostname |-> <<"x">>] }

Lease6 == [ip |-> "", address |-> IpV6, mac |-> mac_ab01, hostname |-> nas]

MaxLeases == 2

LeaseLists4 == UNION {[1..n -> Leases4] : n \in 0..MaxLeases}

LeaseLists6 == {<<>>, <<Lease6>>}

Criteria == [ip : {"", Ip5}, mac : {<<>>, <<"A", "B", "-", "0", "1">>}, hostname : {<<>>, <<"N", "A", "S">>}]

\* the addresses of the leases that the criteria explored can select
LeaseIps == {Ip5, Ip6, IpV6}

\* how the appliance answers the attempts of the delete call for each IP
DeleteAnswers ==
    [LeaseIps -> {Steady(Http(200, DictBody(EmptyDict))), Steady(ConnFail)}]
    \cup {[a \in LeaseIps |-> <<TimeoutFail, Http(200, DictBody(EmptyDict)), ConnFail>>]}

LeaseInit ==
    /\ lease_params = <<>>
    /\ lease_calls = <<>>
    /\ lease_result = <<>>

\* DHCPLeaseDeleteTool.execute(params)
LeaseDelete(hasClient, c, leases4, leases6, answers) ==
    /\ lease_result = <<>>
    /\ lease_params' = [client |-> hasClient, criteria |-> c, dhcpv4 |-> leases4, dhcpv6 |-> leases6]
    /\ LET criteria == c.ip # "" \/ c.mac # <<>> \/ c.hostname # <<>>
           raises == FindRaises(leases4) \/ FindRaises(leases6)
           calls == DeleteCalls("dhcpv4", leases4, FindLeaseByCriteria(leases4, c), answers)
                    \o DeleteCalls("dhcpv6", leases6, FindLeaseByCriteria(leases6, c), answers)
       IN IF ~ hasClient THEN
              /\ lease_calls' = <<>>
              /\ lease_result' = ErrorResult("no_client", "No client available")
          ELSE IF ~ criteria THEN
              /\ lease_calls' = <<>>
              /\ lease_result' = ErrorResult("no_criteria", "Must provide hostname, ip, or mac parameter")
          ELSE IF raises THEN
              /\ lease_calls' = <<>>
              /\ lease_result' = ErrorResult("matching", "'NoneType' object has no attribute 'lower'")
          ELSE
              /\ lease_calls' = calls
              /\ lease_result' =
                    [stage |-> "built", status |-> LeaseStatus(Deleted(calls), Failed(calls)), error |-> "",
                     deleted_leases |-> Deleted(calls),
                     keys |-> {"status", "deleted_leases", "total_deleted", "search_criteria"}
                              \cup (IF Failed(calls) # <<>> THEN {"errors"} ELSE {}),
                     total_deleted |-> Len(Deleted(calls)), errors |-> Len(Failed(calls))]
    /\ UNCHANGED <<earlyVars, probeVars, wireVars, tlsVars, jwtVars>>

LeaseNext ==
    \E hasClient \in BOOLEAN, c \in Criteria, leases4 \in LeaseLists4, leases6 \in LeaseLists6,
       answers \in DeleteAnswers :
        LeaseDelete(hasClient, c, leases4, leases6, answers)

(***************************************************************************)
(* jwt_helper: create_jwt and decode_jwt                                   *)
(***************************************************************************)

\* base64url text of a value, and its inverse on such text
b64encode(data) == [b64 |-> data]

b64decode(text) == text.b64

\* HMAC-SHA256 digest of a message under a key
Hmac(secret_key, message) == [key |-> secret_key, msg |-> message]

\* payload[k] = v on a dict
SetItem(dict, k, v) == [x \in DOMAIN dict \cup {k} |-> IF x = k THEN v ELSE dict[x]]

SecondsPerMinute == 60

\* `if expire_minutes > 0: payload["exp"] = ...` and `payload["iat"] = ...`
WithExpiry(payload, now, expire_minutes) ==
    SetItem(IF expire_minutes > 0 THEN SetItem(payload, "exp", now + expire_minutes * SecondsPerMinute) ELSE payload,
            "iat", now)

\* the three parts of the token create_jwt returns for HS256
CreateJwtToken(payload, secret_key, algorithm, now, expire_minutes) ==
    LET header_b64 == b64encode([alg |-> algorithm, typ |-> "JWT"])
        payload_b64 == b64encode(WithExpiry(payload, now, expire_minutes))
    IN <<header_b64, payload_b64, b64encode(Hmac(secret_key, <<header_b64, payload_b64>>))>>

\* decode_jwt(token, secret_key) with the default algorithms ["HS256"]
DecodeJwtToken(token, secret_key, now) ==
    IF Len(token) # 3 THEN [t |-> "JWTError", msg |-> "Invalid token format", payload |-> EmptyDict]
    ELSE IF b64decode(token[1]).alg # "HS256" THEN
        [t |-> "JWTError", msg |-> "Algorithm not allowed", payload |-> EmptyDict]
    ELSE IF b64decode(token[3]) # Hmac(secret_key, <<token[1], token[2]>>) THEN
        [t |-> "JWTError", msg |-> "Invalid signature", payload |-> EmptyDict]
    ELSE IF "exp" \in DOMAIN b64decode(token[2]) /\ b64decode(token[2])["exp"] < now THEN
        [t |-> "JWTError", msg |-> "Token expired", payload |-> EmptyDict]
    ELSE [t |-> "payload", msg |-> "", payload |-> b64decode(token[2])]

MaxClock == 3

\* the caller's payload dict: fresh, or the dict an earlier create_jwt call
\* (at time 0, one minute of validity) already wrote exp and iat into
JwtPayloads == {("sub" :> 7), ("sub" :> 7) @@ ("exp" :> SecondsPerMinute) @@ ("iat" :> 0)}

ExpireMinutes == {-1, 0, 1}

JwtInit ==
    /\ jwt_now = 0
    /\ jwt_token = <<>>
    /\ jwt_out = <<>>

\* the clock advances by a minute
JwtTick ==
    /\ jwt_now < MaxClock * SecondsPerMinute
    /\ jwt_now' = jwt_now + SecondsPerMinute
    /\ UNCHANGED <<jwt_token, jwt_out, earlyVars, probeVars, wireVars, tlsVars, leaseVars>>

\* create_jwt(payload, secret_key, algorithm, expire_minutes)
CreateJwt(payload, secret_key, algorithm, expire_minutes) ==
    /\ IF algorithm = "HS256"
       THEN /\ jwt_token' = [token |-> CreateJwtToken(payload, secret_key, algorithm, jwt_now, expire_minutes),
                             secret_key |-> secret_key, expire_minutes |-> expire_minutes]
            /\ jwt_out' = <<>>
       ELSE /\ jwt_token' = <<>>
            /\ jwt_out' = [t |-> "ValueError", msg |-> "Algorithm not supported", payload |-> EmptyDict,
                           token |-> <<>>, secret_key |-> secret_key]
    /\ UNCHANGED <<jwt_now, earlyVars, probeVars, wireVars, tlsVars, leaseVars>>

\* decode_jwt(token, secret_key) of the issued token, of the issued token
\* with another payload under the old signature, or of a two-part string
DecodeJwt(forgery, secret_key) ==
    /\ jwt_token # <<>>
    /\ LET token == IF forgery = "none" THEN jwt_token.token
                    ELSE IF forgery = "payload" THEN
                        <<jwt_token.token[1], b64encode(("sub" :> 0)), jwt_token.token[3]>>
                    ELSE <<jwt_token.token[1], jwt_token.token[2]>>
       IN jwt_out' = DecodeJwtToken(token, secret_key, jwt_now) @@ [token |-> token, secret_key |-> secret_key]
    /\ UNCHANGED <<jwt_now, jwt_token, earlyVars, probeVars, wireVars, tlsVars, leaseVars>>

JwtNext ==
    \/ JwtTick
    \/ \E payload \in JwtPayloads, secret_key \in {"k1", "k2"}, algorithm \in {"HS256", "RS256"},
          expire_minutes \in ExpireMinutes :
            CreateJwt(payload, secret_key, algorithm, expire_minutes)
    \/ \E forgery \in {"none", "payload", "truncated"}, secret_key \in {"k1", "k2"} : DecodeJwt(forgery, secret_key)

(***************************************************************************)
(* Specifications                                                          *)
(***************************************************************************)

Init == RetryInit /\ LogsInit /\ ResInit /\ NormInit /\ PipeInit /\ CapInit /\ ProbeInit /\ WireInit /\ TlsInit
        /\ LeaseInit /\ JwtInit

SpecRetry == Init /\ [][RetryNext]_vars

SpecLogs == Init /\ [][LogsNext]_vars

SpecResolver == Init /\ [][ResNext]_vars

SpecNormalize == Init /\ [][NormNext]_vars

SpecPipeline == Init /\ [][PipeNext]_vars

SpecCapture == Init /\ [][CapNext]_vars

SpecRace == Init /\ [][RaceNext]_vars

SpecProbe == Init /\ [][ProbeNext]_vars

SpecWire == Init /\ [][WireNext]_vars

SpecTls == Init /\ [][TlsNext]_vars

SpecLease == Init /\ [][LeaseNext]_vars

SpecJwt == Init /\ [][JwtNext]_vars

(***************************************************************************)
(* Claims                                                                  *)
(***************************************************************************)

\* C1: a request whose every attempt fails makes exactly max_attempts (3)
\* attempts, then stops (no further attempt is possible), and the exception
\* raised to the caller is the one of the last, max_attempts-th, attempt.
C1_RetryTermination ==
    /\ attempts <= max_attempts
    /\ Len(failures) = attempts
    /\ (rpc = "raised" =>
            /\ attempts = max_attempts
            /\ raised = failures[max_attempts]
            /\ ~ ENABLED (\E resp \in SampleResponses : RetryAttemptOk(resp) \/ RetryAttemptFail(resp)))
    /\ (attempts = max_attempts => rpc = "raised")
    /\ (rpc = "attempt" => ENABLED (\E resp \in SampleResponses : RetryAttemptOk(resp) \/ RetryAttemptFail(resp)))

\* C1 witness: three failed attempts with different failures, the last one raised
C1_Witness ==
    /\ rpc = "raised"
    /\ Len(failures) = 3
    /\ failures[1] # failures[3]
    /\ failures[2] # failures[3]
    /\ raised = failures[3]

InSeq(x, s) == \E i \in 1..Len(s) : s[i] = x

\* C2: once the firewall-log capability has been probed on a client, log
\* retrieval never walks the candidate list again: with a cached path every
\* request of get_firewall_logs goes to that path, and with the capability
\* exhausted (no candidate answered 200) get_firewall_logs issues no request
\* and returns the empty list.
C2_ProbeIdempotence ==
    logs_calls > 0 =>
        IF firewall_log_endpoint = PyNone
        THEN logs_contacted = <<>> /\ logs_result = <<>>
        ELSE \A i \in 1..Len(logs_contacted) : logs_contacted[i] = firewall_log_endpoint

\* the metadata the last resolve call worked on
ResolverRan == res_calls > 0 /\ iface_query # <<>> /\ interfaces_cache.set /\ interface_groups_cache.set

\* interfaces other than q whose name or description contains q, ignoring case
OthersContaining(q, interfaces) ==
    {n \in DOMAIN interfaces \ {q} :
        ContainsCI(n, q) \/ ContainsCI(interfaces[n], q)}

\* members of every cached group whose name contains q, ignoring case
GroupMembersContaining(q, groups) ==
    {m \in UNION {groups[g] : g \in DOMAIN groups} :
        \E g \in DOMAIN groups : ContainsCI(g, q) /\ m \in groups[g]}

C5_GroupUnion ==
    (/\ ResolverRan
     /\ groups_fetch_ok
     /\ iface_query \in DOMAIN appliance_groups
     /\ appliance_groups[iface_query] # {})
        => appliance_groups[iface_query] \subseteq res_result

\* C6: a non-empty query that matches no interface name, no description and
\* no group name comes back as the only result.
C6_FailOpen ==
    (/\ ResolverRan
     /\ \A n \in DOMAIN interfaces_cache.v :
            ~ ContainsCI(n, iface_query) /\ ~ ContainsCI(interfaces_cache.v[n], iface_query)
     /\ \A g \in DOMAIN interface_groups_cache.v : ~ ContainsCI(g, iface_query))
        => res_result = {iface_query}

\* C6 witness: an unknown token resolved against a non-empty interface table
C6_Witness ==
    /\ ResolverRan
    /\ iface_query = <<"z">>
    /\ DOMAIN interfaces_cache.v = NamePool
    /\ DOMAIN interface_groups_cache.v # {}
    /\ res_result = {<<"z">>}

\* C7: every stage's matches are in the result, and when some stage matches
\* the result is exactly the union of the four stages' matches: no stage
\* cuts the later ones short.
C7_StagesUnion ==
    ResolverRan =>
        LET s1 == StageExactName(iface_query, interfaces_cache.v)
            s2 == StageExactGroup(iface_query, interface_groups_cache.v)
            s3 == StagePartialName(iface_query, interfaces_cache.v)
            s4 == StagePartialGroup(iface_query, interface_groups_cache.v)
        IN  /\ (s1 \cup s2 \cup s3 \cup s4) \subseteq res_result
            /\ (s1 \cup s2 \cup s3 \cup s4) # {} => res_result = s1 \cup s2 \cup s3 \cup s4

\* C7 witness: the exact-name stage matched and the partial stage added
\* another interface
C7_Witness ==
    /\ ResolverRan
    /\ StageExactName(iface_query, interfaces_cache.v) = {iface_query}
    /\ StagePartialName(iface_query, interfaces_cache.v) \ {iface_query} # {}
    /\ res_result = StagePartialName(iface_query, interfaces_cache.v)

NormRan == norm_fn # "none" /\ norm_in.t = "ok"

\* C8 as stated: normalisation never raises; a list body comes back
\* unchanged, a mapping body with a rows key or a data key gives that key's
\* list, and any other body gives the empty list.
C8_NormalizerTotal ==
    NormRan =>
        LET b == norm_in.body IN
        /\ norm_out.t = "ret"
        /\ IsList(b) => norm_out.v = b
        /\ (IsDict(b) /\ HasKey(b.f, "rows") /\ ~ HasKey(b.f, "data") /\ ~ HasKey(b.f, "leases"))
                => norm_out.v = b.f["rows"]
        /\ (IsDict(b) /\ HasKey(b.f, "data") /\ ~ HasKey(b.f, "rows") /\ ~ HasKey(b.f, "leases"))
                => norm_out.v = b.f["data"]
        /\ (~ IsList(b) /\ ~ (IsDict(b) /\ (NormKeys \ {"unexpected"}) \cap DOMAIN b.f # {}))
                => norm_out.v = ListBody(<<>>)

\* C8 as amended: get_dhcpv4_leases is total: it never raises, returns a list
\* body unchanged, the value of the leases key of a mapping body, or failing
\* that of its rows key, and the empty list for any other body, a mapping
\* with only a data key included. get_firewall_rules returns the rows list of
\* a mapping body (the empty list when there is no rows key) and raises
\* RequestError for a body that is not a mapping, a list included.
C8_NormalizerPerMethod ==
    NormRan =>
        LET b == norm_in.body IN
        /\ norm_fn = "get_dhcpv4_leases" =>
            /\ norm_out.t = "ret"
            /\ IsList(b) => norm_out.v = b
            /\ (IsDict(b) /\ HasKey(b.f, "leases")) => norm_out.v = b.f["leases"]
            /\ (IsDict(b) /\ ~ HasKey(b.f, "leases") /\ HasKey(b.f, "rows")) => norm_out.v = b.f["rows"]
            /\ (~ IsList(b) /\ ~ (IsDict(b) /\ {"leases", "rows"} \cap DOMAIN b.f # {}))
                    => norm_out.v = ListBody(<<>>)
        /\ norm_fn = "get_firewall_rules" =>
            /\ (IsDict(b) /\ HasKey(b.f, "rows") /\ IsList(b.f["rows"]))
                    => norm_out = Ret(b.f["rows"])
            /\ (IsDict(b) /\ ~ HasKey(b.f, "rows")) => norm_out = Ret(ListBody(<<>>))
            /\ ~ IsDict(b) => norm_out = Raise("RequestError")

\* C8 witness: get_dhcpv4_leases got a mapping with only a data key and
\* returned the empty list
C8_Witness ==
    /\ norm_fn = "get_dhcpv4_leases"
    /\ norm_in = Ok(DictBody([data |-> ListBody(<<"d1">>)]))
    /\ norm_out = Ret(ListBody(<<>>))

(***************************************************************************)
(* Rule change pipeline (SpecPipeline)                                     *)
(***************************************************************************)

Issued(path) == {i \in DOMAIN sent : sent[i].path = path}

\* the answer the appliance gave to request i reached the client as a JSON object
AnsweredDict(i) == sent[i].got.t = "ok" /\ sent[i].got.body.t = "dict"

\* request i is a mutation the appliance acknowledged
MutationAcknowledged(i) ==
    /\ AnsweredDict(i)
    /\ \/ /\ sent[i].path = "addRule"
          /\ HasKey(sent[i].got.body.f, "result")
          /\ sent[i].got.body.f["result"] = "saved"
          /\ HasKey(sent[i].got.body.f, "uuid")
       \/ /\ sent[i].path = "delRule"
          /\ HasKey(sent[i].got.body.f, "result")
          /\ sent[i].got.body.f["result"] = "deleted"

\* the last request is an apply request answered with status "failed"
ApplyEndedNonSuccess ==
    /\ sent # <<>>
    /\ sent[Len(sent)].path = "apply"
    /\ AnsweredDict(Len(sent))
    /\ HasKey(sent[Len(sent)].got.body.f, "status")
    /\ sent[Len(sent)].got.body.f["status"] = StatusFailed

\* C3: when mkfw_rule or rmfw_rule runs with apply enabled, the mutation call
\* succeeded and the apply request was answered with a non-success status, the
\* tool returns status "partial_success" carrying the rule's UUID. The code
\* does not do this: apply_firewall_changes raises ResponseError on such a
\* status, so execute() ends in `except Exception` with status "error" and no
\* rule_uuid.
C3_PartialSuccessOnApplyFailure ==
    ( /\ ppc = "done"
      /\ params.apply
      /\ \E i \in DOMAIN sent : MutationAcknowledged(i)
      /\ ApplyEndedNonSuccess )
    => /\ result.status = "partial_success"
       /\ result.rule_uuid = rule_uuid
       /\ result.rule_uuid # 0

\* C9: mkfw_rule with apply=false whose addRule request the appliance accepted
\* returns status "success", applied False and the UUID the appliance answered;
\* no savepoint and no apply request is issued by the call; the rule is in the
\* candidate configuration and not in the live one.
C9_CreateWithoutApply ==
    (tool = "mkfw_rule" /\ ~ params.apply) =>
        /\ Issued("savepoint") = {} /\ Issued("apply") = {}
        /\ \A i \in Issued("addRule") :
              MutationAcknowledged(i) =>
                 /\ ppc = "done"
                 /\ result.status = "success"
                 /\ result.applied = "False"
                 /\ result.rule_uuid = sent[i].got.body.f["uuid"]
                 /\ result.rule_uuid # 0
                 /\ result.rule_uuid \in candidate
                 /\ result.rule_uuid \notin live

\* a rule was created without apply while an earlier rule is already live
C9_Witness ==
    /\ ppc = "done"
    /\ tool = "mkfw_rule"
    /\ ~ params.apply
    /\ result.status = "success"
    /\ result.applied = "False"
    /\ result.rule_uuid = 2
    /\ live = {1}
    /\ candidate = {1, 2}

\* savepoint request j was answered with a revision
AnsweredRevision(j) ==
    /\ sent[j].path = "savepoint"
    /\ AnsweredDict(j)
    /\ HasKey(sent[j].got.body.f, "revision")

\* C10: in apply_firewall_changes every apply request comes after a savepoint
\* request that was answered with a revision, and names exactly that revision;
\* a savepoint answer without a revision ends the call: no apply request is
\* issued and the tool reports a failure.
C10_SavepointBeforeApply ==
    /\ \A i \in Issued("apply") :
          \E j \in Issued("savepoint") :
              /\ j < i
              /\ AnsweredRevision(j)
              /\ sent[i].arg = sent[j].got.body.f["revision"]
              /\ \A k \in Issued("savepoint") : k <= j
    /\ \A j \in Issued("savepoint") :
          (sent[j].got.t = "ok" /\ ~ AnsweredRevision(j)) =>
              /\ Issued("apply") = {}
              /\ ppc = "done"
              /\ result.status = "error"

\* the second revision handed out was applied after a retried savepoint
C10_Witness ==
    /\ ppc = "done"
    /\ result.status = "success"
    /\ result.applied = "True"
    /\ result.revision = 2
    /\ \E i \in Issued("apply") : sent[i].arg = 2 /\ sent[i].got.t = "ok"
    /\ Cardinality(Issued("savepoint")) = 2

Mutations == Issued("addRule") \cup Issued("delRule")

\* C11: when the mutation call of mkfw_rule or rmfw_rule fails (the appliance
\* rejects the rule or does not know the UUID, or every attempt of the request
\* fails), the tool returns an error result and the call issues no savepoint
\* and no apply request; a savepoint or apply request is only ever issued
\* after an acknowledged mutation.
C11_MutationFailureStops ==
    /\ (Issued("savepoint") \cup Issued("apply")) # {} =>
            \E i \in Mutations :
                /\ MutationAcknowledged(i)
                /\ \A k \in Issued("savepoint") \cup Issued("apply") : i < k
    /\ (ppc = "done" /\ Mutations # {} /\ \A i \in Mutations : ~ MutationAcknowledged(i)) =>
            /\ result.status = "error"
            /\ Issued("savepoint") = {}
            /\ Issued("apply") = {}

\* a delete with apply enabled named a UUID the appliance does not have
C11_Witness ==
    /\ ppc = "done"
    /\ tool = "rmfw_rule"
    /\ params.apply
    /\ candidate # {}
    /\ Len(sent) = 1
    /\ sent[1].path = "delRule"
    /\ AnsweredDict(1)
    /\ sent[1].got.body.f["result"] = "not found"
    /\ result.status = "error"

\* the appliance handled request i of the running execute(): every attempt
\* that did not fail to connect reached it, whether or not its answer came back
HandledByAppliance(i) == ~ (sent[i].got.t = "exc" /\ sent[i].got.resp.kind = "conn")

\* C12: a revision that the appliance has already received in an apply
\* request is never sent again in a later apply request. (No tool of the
\* repository calls cancel_firewall_rollback, so apply requests are the only
\* ones that carry a revision.) The code does not keep this: the request
\* apply/{revision} goes through the retry wrapper, so when the appliance
\* handled it and the answer was lost, the same revision is sent again.
C12_RevisionNotReused ==
    \A i, j \in Issued("apply") :
        (i < j /\ HandledByAppliance(i)) => sent[j].arg # sent[i].arg

\* the last addRule request of the running execute()
LastAddRule == CHOOSE i \in Issued("addRule") : \A k \in Issued("addRule") : k <= i

\* C13: whenever mkfw_rule reports success, the rule_uuid it reports is the
\* uuid of the appliance's answer to the addRule request of that call; an
\* answer without a uuid, or whose result is not "saved", never ends in a
\* reported success.
C13_UuidFromAppliance ==
    (tool = "mkfw_rule" /\ ppc = "done" /\ Issued("addRule") # {}) =>
        /\ result.status \in {"success", "partial_success"} =>
              /\ MutationAcknowledged(LastAddRule)
              /\ result.rule_uuid = sent[LastAddRule].got.body.f["uuid"]
        /\ ~ MutationAcknowledged(LastAddRule) =>
              /\ result.status = "error"
              /\ result.rule_uuid = 0

\* the appliance saved a rule under UUID 1 but that answer was lost; the
\* retried request was answered with UUID 2, which is the one reported
C13_Witness ==
    /\ tool = "mkfw_rule"
    /\ ppc = "done"
    /\ result.status = "success"
    /\ Len(sent) >= 2
    /\ sent[1].path = "addRule"
    /\ sent[1].got.t = "exc"
    /\ sent[2].path = "addRule"
    /\ MutationAcknowledged(2)
    /\ sent[2].got.body.f["uuid"] = 2
    /\ result.rule_uuid = 2
    /\ candidate = {1, 2}

(***************************************************************************)
(* Transport failures (SpecRetry)                                          *)
(***************************************************************************)

\* the answer is a 200 whose body is a mapping with result == "failed"
AppFailed(resp) ==
    /\ resp.kind = "http"
    /\ resp.status = 200
    /\ resp.body.t = "dict"
    /\ HasKey(resp.body.f, "result")
    /\ resp.body.f["result"] = "failed"

\* the kind of failure an attempt met, read off what requests.request did
FailureKind(resp) ==
    CASE resp.kind = "conn" -> "connection"
      [] resp.kind \in {"timeout", "other"} -> "other"
      [] resp.kind = "http" /\ resp.status >= 400 -> "http"
      [] resp.kind = "http" /\ resp.status < 400 /\ resp.body.t = "invalid" -> "parse"
      [] OTHER -> "application"

FourKinds == {"connection", "http", "parse", "application"}

\* a 200 answer with result == "failed" is never returned as a parsed body
AppFailureNeverReturned ==
    /\ rpc = "attempt" =>
          \A resp \in SampleResponses :
              AppFailed(resp) => /\ ~ ENABLED RetryAttemptOk(resp)
                                 /\ ENABLED RetryAttemptFail(resp)
    /\ \A i \in DOMAIN failures :
          AppFailed(failures[i].resp) =>
              failures[i].type = "RequestError" /\ failures[i].msg = "API error"

C15_EveryFailureRetried ==
    /\ rpc = "raised" => Len(failures) = max_attempts
    /\ Len(sleeps) = (IF Len(failures) = max_attempts THEN max_attempts - 1 ELSE Len(failures))
    /\ (rpc = "attempt" /\ Len(failures) < max_attempts) =>
          \A resp \in SampleResponses :
              ENABLED RetryAttemptOk(resp) \/ ENABLED RetryAttemptFail(resp)

\* an unexpected exception, a parse failure and a connection failure in one call
C15_Witness ==
    /\ rpc = "raised"
    /\ Len(failures) = 3
    /\ failures[1].type = "Exception"
    /\ failures[2].type = "ResponseError"
    /\ failures[3].type = "ConnectionError"
    /\ Len(sleeps) = 2

(***************************************************************************)
(* Probe and log retrieval failures (SpecLogs)                             *)
(***************************************************************************)

\* C16: neither the probe of the constructor nor get_firewall_logs raises,
\* whatever the candidates answer; the probe ends with a path or None, and
\* get_firewall_logs returns the empty list when no candidate yields data.
C16_ProbeAndLogsNeverRaise ==
    /\ logs_raised = "none"
    /\ firewall_log_endpoint \in {"unprobed", PyNone} \cup CandidateSet
    /\ (logs_calls > 0 /\ logs_nodata) => logs_result = <<>>

\* the probe found nothing; in a later get_firewall_logs three candidates
\* failed on every attempt and the fourth answered a body without a list
C16_Witness ==
    /\ firewall_log_endpoint = PyNone
    /\ Len(probe_contacted) = 4
    /\ logs_calls > 0
    /\ logs_nodata
    /\ Len(logs_contacted) = 3 * max_attempts + 1
    /\ logs_contacted[1] = "/api/custom/log"
    /\ logs_contacted[Len(logs_contacted)] = LogPaths[3]
    /\ logs_result = <<>>
    /\ logs_raised = "none"

(***************************************************************************)
(* Resolver fetch failures (SpecResolver)                                  *)
(***************************************************************************)

\* C17: _resolve_interface_name never raises because a metadata fetch failed:
\* a failed interface fetch leaves the interface table empty, a failed group
\* fetch leaves the group table empty, and the call still goes through the
\* stages to a non-empty result: the matches on what was fetched, or the
\* query itself.
C17_FetchFailureFallsThrough ==
    /\ res_raised = "none"
    /\ interfaces_cache.set =>
          /\ res_fetch[1] = "raise" => interfaces_cache.v = <<>>
          /\ res_fetch[2] = "raise" => DOMAIN interface_groups_cache.v = {}
    /\ (ResolverRan /\ res_fetch[1] = "raise") => res_result = {iface_query}
    /\ (ResolverRan /\ res_fetch[2] = "raise" /\ res_fetch[1] # "raise") =>
          LET byName == ({iface_query} \cap DOMAIN interfaces_cache.v)
                            \cup OthersContaining(iface_query, interfaces_cache.v)
          IN res_result = IF byName = {} THEN {iface_query} ELSE byName

\* the group fetch failed and the query was still resolved by the partial
\* match on the interfaces that were fetched
C17_Witness ==
    /\ ResolverRan
    /\ res_fetch = <<"dict", "raise">>
    /\ iface_query = <<"x">>
    /\ res_result = {ax1, ax10}
    /\ res_raised = "none"

(***************************************************************************)
(* Packet capture (SpecCapture)                                            *)
(***************************************************************************)

\* C18: in start_capture the static table of logical names sets the resolved
\* device only when the live metadata could not be fetched; when the
\* interface export was answered with interfaces the static table is not
\* used. The code does not keep this: the table is consulted whenever the
\* name matched nothing, whether or not the metadata was fetched.
C18_StaticOnlyWithoutMetadata == cap_source = "static" => ~ cap_fetched

(***************************************************************************)
(* Two callers (SpecRace)                                                  *)
(***************************************************************************)

\* the step in which the first caller's apply_firewall_changes returns success
FirstCallerApplies == ppc = "apply" /\ ppc' = "done" /\ result'.status = "success"

\* the second caller has added its rule and has not sent its apply request
PeerPending == peer_pc \in {"savepoint", "apply"}

\* C19: the client has no lock, so two callers interleave freely, and an apply
\* sent under one caller's revision that is reported as success makes live
\* every pending edit: a rule the other caller added and has not applied is
\* in the running configuration afterwards.
C19_ApplyPublishesPeerEdit ==
    [][(FirstCallerApplies /\ PeerPending) => peer_rule_uuid \in live']_vars

\* both callers held a savepoint before any apply request was sent (the
\* appliance has handed out two revisions, the second caller holds the older
\* one and has not sent its apply), the first caller's apply succeeded, and the
\* second caller's rule is live although its apply request was never sent
C19_Witness ==
    /\ ppc = "done"
    /\ result.status = "success"
    /\ result.applied = "True"
    /\ peer_pc = "apply"
    /\ peer_revision >= 1
    /\ peer_revision < result.revision
    /\ result.revision = 2
    /\ next_rev = 3
    /\ peer_rule_uuid \in live

(***************************************************************************)
(* Tool results (SpecPipeline)                                             *)
(***************************************************************************)

\* the params the tools refuse: mkfw_rule without a description or with an
\* action that is none of pass, block, reject (compared in lower case, as
\* the validator does); rmfw_rule without a rule_uuid
InvalidInput ==
    \/ tool = "mkfw_rule" /\ params.description = ""
    \/ tool = "mkfw_rule" /\ LowerStr(params.action) \notin {ActPass, ActBlock, ActReject}
    \/ tool = "rmfw_rule" /\ params.rule_uuid = 0

\* C20: MkfwRuleTool.execute and RmfwRuleTool.execute always return a dict
\* whose status is success, partial_success or error (no exception leaves
\* them), and on invalid input the status is error and no request was sent.
C20_ToolsAlwaysReturnStatus ==
    ppc = "done" =>
        /\ result.status \in {"success", "partial_success", "error"}
        /\ InvalidInput => (result.status = "error" /\ sent = <<>>)

\* an execute of mkfw_rule that was refused for its action: status error and
\* no request sent, on an appliance that holds a rule from an earlier call
C20_Witness ==
    /\ ppc = "done"
    /\ tool = "mkfw_rule"
    /\ params.description # ""
    /\ params.action = <<"d", "r", "o", "p">>
    /\ result.status = "error"
    /\ sent = <<>>
    /\ candidate # {}

(***************************************************************************)
(* Retry delays and first success (SpecRetry)                              *)
(***************************************************************************)

RECURSIVE Pow(_, _)
Pow(b, n) == IF n = 0 THEN 1 ELSE b * Pow(b, n - 1)

\* C26: the k-th sleep of a call, between failed attempt k and attempt k+1,
\* lasts delay * backoff^(k-1); a sleep follows every failed attempt but the
\* max_attempts-th, so an always-failing call sleeps max_attempts - 1 times
\* and raises straight after its last attempt.
C26_BackoffDelays ==
    /\ \A k \in DOMAIN sleeps : sleeps[k] = delay * Pow(backoff, k - 1)
    /\ Len(sleeps) = (IF Len(failures) = max_attempts THEN max_attempts - 1 ELSE Len(failures))
    /\ (rpc = "raised" => Len(sleeps) = max_attempts - 1)

\* an always-failing call: three failures, sleeps of 1 and 2, then the raise
C26_Witness ==
    /\ rpc = "raised"
    /\ Len(failures) = 3
    /\ sleeps = <<1, 2>>

\* C30: when the call returned, the attempt that succeeded is the last one
\* issued and the first that did not fail; the value returned is the parsed
\* body of the answer to that attempt; with k - 1 failures before it exactly
\* k attempts were issued; and no attempt can follow.
C30_FirstSuccessReturns ==
    /\ (returned # None <=> rpc = "returned")
    /\ (rpc = "returned" =>
            /\ Len(tried) = Len(failures) + 1
            /\ Len(tried) <= max_attempts
            /\ \A i \in DOMAIN failures : failures[i].resp = tried[i]
            /\ tried[Len(tried)].kind = "http"
            /\ returned = tried[Len(tried)].body
            /\ ~ ENABLED (\E resp \in SampleResponses : RetryAttemptOk(resp) \/ RetryAttemptFail(resp)))

\* the third attempt is the first to succeed: two failures, then a 200 whose
\* body is returned
C30_Witness ==
    /\ rpc = "returned"
    /\ Len(failures) = 2
    /\ Len(tried) = 3
    /\ tried[3] = Http(200, DictBody([result |-> "saved"]))
    /\ returned = DictBody([result |-> "saved"])

(***************************************************************************)
(* Endpoint probe (SpecProbe)                                              *)
(***************************************************************************)

\* the positions of the non-empty candidates whose GET answers 200
ProbeHits == {i \in DOMAIN pb_eps : pb_eps[i] # PyNone /\ pb_answer[pb_eps[i]] = 200}

FirstHit == CHOOSE i \in ProbeHits : \A j \in ProbeHits : i <= j

NonEmpty(ep) == ep # PyNone

\* C25: the probe returns the first candidate, in list order, that is not
\* empty and whose GET answers 200, and None when there is none; a GET is
\* sent to every non-empty candidate up to the selected one (whatever the
\* earlier ones answered: 401, 404, 500 or an exception) and to no candidate
\* after it.
C25_FirstAnswering200 ==
    pb_ep # "unprobed" =>
        IF ProbeHits = {}
        THEN /\ pb_ep = PyNone
             /\ pb_contacted = SelectSeq(pb_eps, NonEmpty)
        ELSE /\ pb_ep = pb_eps[FirstHit]
             /\ pb_contacted = SelectSeq(SubSeq(pb_eps, 1, FirstHit), NonEmpty)

\* the empty first candidate is skipped, the second answers 401, the third an
\* exception, the fourth 200 and is selected
C25_Witness ==
    /\ pb_eps = Candidates(PyNone)
    /\ pb_answer[LogPaths[1]] = 401
    /\ pb_answer[LogPaths[2]] = 0
    /\ pb_answer[LogPaths[3]] = 200
    /\ pb_ep = LogPaths[3]
    /\ pb_contacted = LogPaths

(***************************************************************************)
(* Resolver caches (SpecResolver)                                          *)
(***************************************************************************)

\* C27: over any sequence of resolve calls on one FwRulesTool the interface
\* metadata and the group metadata are each fetched at most once, also when
\* the first fetch failed (its empty outcome is kept); every call that
\* resolves a name computes its result from the outcome of that first fetch,
\* whatever the appliance would answer later.
C27_FetchedAtMostOnce ==
    /\ res_fetches[1] <= 1
    /\ res_fetches[2] <= 1
    /\ (interfaces_cache.set <=> res_fetches[1] = 1)
    /\ (interface_groups_cache.set <=> res_fetches[2] = 1)
    /\ (interfaces_cache.set => interfaces_cache.v = res_first[1])
    /\ (interface_groups_cache.set => interface_groups_cache.v = res_first[2])
    /\ (iface_query # <<>> => res_result = ResolveInterfaceName(iface_query, res_first[1], res_first[2]))

\* a second resolve call on a tool whose first call met two failed fetches:
\* one fetch each, empty metadata kept, the query passed through
C27_Witness ==
    /\ res_calls = 2
    /\ res_fetch = <<"raise", "raise">>
    /\ res_fetches = <<1, 1>>
    /\ interfaces_cache = [set |-> TRUE, v |-> <<>>]
    /\ iface_query = lab
    /\ res_result = {lab}

(***************************************************************************)
(* One create operation (SpecPipeline)                                     *)
(***************************************************************************)

\* the rules the addRule requests of the running execute() put into the
\* candidate configuration
RulesAdded == UNION {sent[i].added : i \in Issued("addRule")}

\* C29: one call of add_firewall_rule, with the retries of its request, adds
\* at most one rule to the candidate configuration. The code does not keep
\* this: an addRule request that the appliance handled and whose answer was
\* lost is sent again by the retry wrapper, and the appliance saves a second
\* rule.
C29_CreateAddsAtMostOne == Cardinality(RulesAdded) <= 1

(***************************************************************************)
(* Wire format of the enabled flag (SpecWire)                              *)
(***************************************************************************)

\* C21: in every create-rule and toggle-rule request the enabled flag, when
\* it is transmitted (in the body of addRule, in the path of toggleRule), is
\* the string "1" or the string "0", never a native boolean or a number.
C21_EnabledFlagIsString ==
    /\ wire_req.flag \in {Absent, StrV("0"), StrV("1")}
    /\ ("enabled" \in DOMAIN wire_req.body => wire_req.body["enabled"] \in {StrV("0"), StrV("1")})
    /\ (wire_op = "toggle" => wire_req.flag # Absent)

\* a create request for a rule given enabled=False (a native boolean): the
\* body carries enabled as the string "0"
C21_Witness ==
    /\ wire_op = "create"
    /\ wire_in = BoolV("False")
    /\ "enabled" \in DOMAIN wire_req.body
    /\ wire_req.body["enabled"] = StrV("0")

(***************************************************************************)
(* Certificate verification (SpecTls)                                      *)
(***************************************************************************)

\* C22: every request of a client is sent with certificate verification
\* exactly when the client was configured with verify_ssl true (so two
\* clients that differ only in the flag send requests that differ in
\* verification). The code does not keep this: the probe and _make_request
\* pass verify=False whatever the configuration says.
C22_VerifyFollowsConfig ==
    \A i \in DOMAIN tls_log : tls_log[i].verify = (tls_verify_ssl = "True")

(***************************************************************************)
(* DHCP lease deletion (SpecLease)                                         *)
(***************************************************************************)

\* a deletion selected by IP alone that found exactly one IPv4 lease and no IPv6 lease
ByIpOneMatch ==
    /\ lease_result # <<>>
    /\ lease_result.stage = "built"
    /\ lease_params.criteria.ip # "" /\ lease_params.criteria.mac = <<>> /\ lease_params.criteria.hostname = <<>>
    /\ Len(FindLeaseByCriteria(lease_params.dhcpv4, lease_params.criteria)) = 1
    /\ FindLeaseByCriteria(lease_params.dhcpv6, lease_params.criteria) = <<>>

\* C23: deleting a lease by IP with exactly one IPv4 match issues exactly one
\* request, a POST to /api/dhcpv4/leases/del_lease with the lease's IP passed
\* as the `ip` argument, and (the request answered) returns status success
\* with that lease in deleted_leases and total_deleted = 1. The code does not
\* keep this: it puts the IP into the path and passes no argument.
C23_DeleteByIpRequest ==
    ByIpOneMatch =>
        /\ Len(lease_calls) = 1
        /\ lease_calls[1].method = "POST"
        /\ lease_calls[1].path = <<"api", "dhcpv4", "leases", "del_lease">>
        /\ lease_calls[1].kwargs = ("ip" :> lease_params.criteria.ip)
        /\ lease_calls[1].ok =>
              /\ lease_result.status = "success"
              /\ Len(lease_result.deleted_leases) = 1
              /\ lease_result.deleted_leases[1].ip = lease_params.criteria.ip
              /\ lease_result.total_deleted = 1

\* the status table of a result, over the deleted leases it lists and the
\* delete calls that raised
StatusTable ==
    LET deleted == Len(lease_result.deleted_leases)
        failed == Len(SelectSeq(lease_calls, LAMBDA c : ~ c.ok))
    IN /\ lease_result.status = "no_matches" <=> (deleted = 0 /\ failed = 0)
       /\ lease_result.status = "success" <=> (deleted >= 1 /\ failed = 0)
       /\ lease_result.status = "partial_success" <=> (deleted >= 1 /\ failed >= 1)
       /\ lease_result.status = "error" <=> (deleted = 0 /\ failed >= 1)
       /\ "total_deleted" \in lease_result.keys
       /\ lease_result.total_deleted = deleted

\* no lease of a fetched list is the subject of two delete calls, and every
\* call is for a lease that matches
OneCallPerMatch ==
    /\ \A j, k \in DOMAIN lease_calls :
          (j < k /\ lease_calls[j].path[2] = lease_calls[k].path[2]) => lease_calls[j].entry # lease_calls[k].entry
    /\ \A k \in DOMAIN lease_calls :
          LeaseMatches(lease_params[lease_calls[k].path[2]][lease_calls[k].entry], lease_params.criteria)

\* C28 as stated: every outcome of a deletion that reaches the matching step
\* obeys the status table (no_matches, success, partial_success, error by
\* deleted and failed counts), total_deleted equals the number of
\* deleted_leases, and each matching lease gets at most one delete request.
C28_StatusTableOnceMatching ==
    (lease_result # <<>> /\ lease_result.stage \in {"matching", "built"}) => (StatusTable /\ OneCallPerMatch)

\* C28, amended: the table, total_deleted and the one-call-per-lease bound
\* hold for every result built after matching completed; each call sends at
\* most max_attempts requests. When matching itself raises (a lease whose
\* mac or hostname is null), the result is status error with no lease
\* deleted, no delete call made and no total_deleted.
C28_StatusTableOfBuiltResults ==
    /\ (lease_result # <<>> /\ lease_result.stage = "built") =>
          /\ StatusTable
          /\ OneCallPerMatch
          /\ \A k \in DOMAIN lease_calls : lease_calls[k].attempts \in 1..max_attempts
    /\ (lease_result # <<>> /\ lease_result.stage = "matching") =>
          /\ lease_result.status = "error"
          /\ lease_result.deleted_leases = <<>>
          /\ lease_calls = <<>>
          /\ "total_deleted" \notin lease_result.keys

C28_Witness ==
    /\ lease_result # <<>>
    /\ lease_result.stage = "built"
    /\ lease_result.status = "partial_success"
    /\ Len(lease_calls) = 3
    /\ lease_result.total_deleted = 2

(***************************************************************************)
(* Token expiry (SpecJwt)                                                  *)
(***************************************************************************)

\* decode_jwt has just been applied, with the signing key, to the token that
\* create_jwt returned for a non-positive expire_minutes
DecodedPastExpiry ==
    /\ jwt_out # <<>>
    /\ jwt_token # <<>>
    /\ jwt_token.expire_minutes <= 0
    /\ jwt_out.token = jwt_token.token
    /\ jwt_out.secret_key = jwt_token.secret_key

\* C24: a token created by create_jwt with a non-positive expire_minutes is
\* rejected by decode_jwt with the error "Token expired"; its payload is
\* never returned. The code does not keep this: create_jwt writes no exp for
\* a non-positive expire_minutes, so the token never expires.
C24_PastExpiryRejected ==
    DecodedPastExpiry => (jwt_out.t = "JWTError" /\ jwt_out.msg = "Token expired")

====
